---------------------------- MODULE Spec2Model ----------------------------
(***************************************************************************)
(* A model of scripts/matching_algorithm.py: the MatchingAlgorithm object  *)
(* (five weights), its two preset operations, calculate_match_score with   *)
(* its five component scores, and the ranking drivers.                     *)
(*                                                                         *)
(* Numbers.  Python computes in binary floating point; the model computes  *)
(* the same expressions in exact rational arithmetic on scaled integers:   *)
(*   - a weight is an integer number of 1/WScale;                          *)
(*   - a component score is an integer number of 1/ScoreScale points;      *)
(*   - a weighted score (score * weight) is a pair <<hi, lo>> that stands  *)
(*     for (hi + lo/WLimb) / (WCoarse * ScoreScale) points, 0 <= lo <      *)
(*     WLimb, so that no intermediate product leaves TLC's integers.       *)
(* Strings are sequences of one-character strings, so that lower(), `in`   *)
(* and startswith() are computed and not assumed.                          *)
(***************************************************************************)
EXTENDS Integers, Sequences, FiniteSets, TLC

VARIABLES
    weights,    \* the object's five weight_* attributes, or NoObject
    outcome,    \* what the last call did: [op, args, status, value]
    scoring,    \* a calculate_match_score call another thread is inside of
    preset,     \* an adjust_weights_* call another thread is inside of
    earlier,    \* a scoring call made before the last one, or NoCall
    run,        \* the position and the requests of an ai_integration call
    store       \* the Students sheet and table of a StudentProfileManager

vars == <<weights, outcome, scoring, preset, earlier, run, store>>

\* no call in progress on another thread
Idle == [pc |-> "idle"]

NoThreads == scoring = Idle /\ preset = [pc |-> "idle", calls |-> 0]

\* no scoring call is remembered
NoCall == [op |-> "none"]

\* no ai_integration call has been made
NoRun == [pc |-> "none"]

\* no StudentProfileManager has been constructed
NoStore == [manager |-> "none"]

(***************************************************************************)
(* Arithmetic helpers                                                      *)
(***************************************************************************)
Abs(x) == IF x < 0 THEN -x ELSE x

Max(a, b) == IF a >= b THEN a ELSE b

Min(a, b) == IF a <= b THEN a ELSE b

(***************************************************************************)
(* Weights.  WScale = WLimb * WCoarse units make 1.0; 0.35 is 3500 * WLimb.*)
(* The unit is fine enough to tell the relative tolerance of math.isclose  *)
(* from an absolute one.                                                   *)
(***************************************************************************)
WLimb == 100000 - 1

WCoarse == 100 * 100

WScale == WLimb * WCoarse

\* w hundredths of a percent, e.g. Frac(3500) = 0.35
Frac(k) == k * WLimb

WeightNames == {"skill_alignment", "difficulty_fit", "org_fit", "time_fit", "strategic_value"}

WeightOrder == <<"skill_alignment", "difficulty_fit", "org_fit", "time_fit", "strategic_value">>

MkWeights(a, b, c, d, e) ==
    [skill_alignment |-> a, difficulty_fit |-> b, org_fit |-> c,
     time_fit |-> d, strategic_value |-> e]

\* total_weight of __init__
TotalWeight(w) ==
    w.skill_alignment + w.difficulty_fit + w.org_fit + w.time_fit + w.strategic_value

\* rel_tol of the math.isclose call in __init__ is 1e-5 = 1 / RelTolInv
RelTolInv == 100000

\* a constructor that validates nothing
IsCloseUnchecked(total) == TRUE

\* math.isclose(total, 1.0, rel_tol=1e-5):
\*   abs(total - 1.0) <= rel_tol * max(abs(total), abs(1.0))
\* written with a division so that the product does not overflow
IsClose(total) ==
    Abs(total - WScale) <= Max(Abs(total), WScale) \div RelTolInv

\* the default arguments of __init__
DefaultWeights == MkWeights(Frac(3500), Frac(2000), Frac(1500), Frac(1500), Frac(1500))

\* no MatchingAlgorithm object is bound yet
NoObject == [object |-> "none"]

HasObject == "skill_alignment" \in DOMAIN weights

NoValue == "NoValue"

Outcome(op, args, status, value) ==
    [op |-> op, args |-> args, status |-> status, value |-> value]

\* the outcome of a call that raises status or, when status is "ok",
\* returns value
Returned(op, args, status, value) ==
    Outcome(op, args, status, IF status = "ok" THEN value ELSE NoValue)

(***************************************************************************)
(* MatchingAlgorithm.__init__: a failed construction raises ValueError and *)
(* binds no object, so the caller keeps whatever object it had.            *)
(***************************************************************************)
InitObject(w) ==
    IF ~IsClose(TotalWeight(w))
    THEN /\ outcome' = Outcome("__init__", w, "ValueError", NoValue)
         /\ UNCHANGED weights
    ELSE /\ weights' = w
         /\ outcome' = Outcome("__init__", w, "ok", NoValue)

(***************************************************************************)
(* The preset tables, as tuples in the order of WeightOrder                *)
(***************************************************************************)
PhaseTable(phase) ==
    CASE phase = "early"  -> MkWeights(Frac(4000), Frac(2500), Frac(1500), Frac(1000), Frac(1000))
      [] phase = "middle" -> MkWeights(Frac(3500), Frac(2000), Frac(1500), Frac(1500), Frac(1500))
      [] phase = "late"   -> MkWeights(Frac(2500), Frac(1500), Frac(1500), Frac(2000), Frac(2500))

GoalTable(goal) ==
    CASE goal = "skill_development" -> MkWeights(Frac(3000), Frac(3500), Frac(1000), Frac(1500), Frac(1000))
      [] goal = "selection"         -> MkWeights(Frac(3000), Frac(1500), Frac(1500), Frac(1500), Frac(2500))
      [] goal = "portfolio"         -> MkWeights(Frac(2500), Frac(2000), Frac(2500), Frac(1000), Frac(2000))

KnownPhases == {"early", "middle", "late"}

KnownGoals == {"skill_development", "selection", "portfolio"}

\* a branch that forgets the assignment of weight_org_fit
AssignAllButOrgFit(w, table) ==
    MkWeights(table.skill_alignment, table.difficulty_fit, w.org_fit,
              table.time_fit, table.strategic_value)

\* the five assignments of one branch, applied to the weights w in order
AssignAll(w, table) ==
    MkWeights(table.skill_alignment, table.difficulty_fit, table.org_fit,
              table.time_fit, table.strategic_value)

\* a preset that falls back to the middle phase on an unknown name
AdjustWeightsForGsocPhaseFallback(phase) ==
    /\ HasObject
    /\ IF phase \in KnownPhases
       THEN /\ weights' = AssignAll(weights, PhaseTable(phase))
            /\ outcome' = Outcome("adjust_weights_for_gsoc_phase", phase, "ok", NoValue)
       ELSE /\ weights' = AssignAll(weights, PhaseTable("middle"))
            /\ outcome' = Outcome("adjust_weights_for_gsoc_phase", phase, "ValueError", NoValue)

\* adjust_weights_for_gsoc_phase, run without interruption
AdjustWeightsForGsocPhase(phase) ==
    /\ HasObject
    /\ IF phase \in KnownPhases
       THEN /\ weights' = AssignAll(weights, PhaseTable(phase))
            /\ outcome' = Outcome("adjust_weights_for_gsoc_phase", phase, "ok", NoValue)
       ELSE /\ outcome' = Outcome("adjust_weights_for_gsoc_phase", phase, "ValueError", NoValue)
            /\ UNCHANGED weights

\* adjust_weights_for_student_goals, run without interruption
AdjustWeightsForStudentGoals(goal) ==
    /\ HasObject
    /\ IF goal \in KnownGoals
       THEN /\ weights' = AssignAll(weights, GoalTable(goal))
            /\ outcome' = Outcome("adjust_weights_for_student_goals", goal, "ok", NoValue)
       ELSE /\ outcome' = Outcome("adjust_weights_for_student_goals", goal, "ValueError", NoValue)
            /\ UNCHANGED weights

(***************************************************************************)
(* Strings are sequences of characters.  Records from the stores are TLA+  *)
(* records; a field a record lacks is a key its dict lacks.                *)
(***************************************************************************)
\* dict.get(key, default)
Get(d, k, default) == IF k \in DOMAIN d THEN d[k] ELSE default

UpperToLower ==
    [c \in {"A", "B", "C", "D", "E", "F", "G", "H", "I", "J", "K", "L", "M",
            "N", "O", "P", "Q", "R", "S", "T", "U", "V", "W", "X", "Y", "Z"} |->
        CASE c = "A" -> "a" [] c = "B" -> "b" [] c = "C" -> "c" [] c = "D" -> "d"
          [] c = "E" -> "e" [] c = "F" -> "f" [] c = "G" -> "g" [] c = "H" -> "h"
          [] c = "I" -> "i" [] c = "J" -> "j" [] c = "K" -> "k" [] c = "L" -> "l"
          [] c = "M" -> "m" [] c = "N" -> "n" [] c = "O" -> "o" [] c = "P" -> "p"
          [] c = "Q" -> "q" [] c = "R" -> "r" [] c = "S" -> "s" [] c = "T" -> "t"
          [] c = "U" -> "u" [] c = "V" -> "v" [] c = "W" -> "w" [] c = "X" -> "x"
          [] c = "Y" -> "y" [] c = "Z" -> "z"]

\* str.lower()
Lower(s) ==
    [i \in 1..Len(s) |-> IF s[i] \in DOMAIN UpperToLower THEN UpperToLower[s[i]] ELSE s[i]]

\* sub in s
Contains(sub, s) ==
    \E i \in 0..(Len(s) - Len(sub)) : SubSeq(s, i + 1, i + Len(sub)) = sub

\* s.startswith(prefix)
StartsWith(s, prefix) ==
    Len(prefix) <= Len(s) /\ SubSeq(s, 1, Len(prefix)) = prefix

\* s.split(): the maximal runs of non-blank characters, in order
RECURSIVE SplitFrom(_, _, _)
SplitFrom(s, i, word) ==
    IF i > Len(s)
    THEN IF word = <<>> THEN <<>> ELSE <<word>>
    ELSE IF s[i] = " "
         THEN (IF word = <<>> THEN <<>> ELSE <<word>>) \o SplitFrom(s, i + 1, <<>>)
         ELSE SplitFrom(s, i + 1, Append(word, s[i]))

Split(s) == SplitFrom(s, 1, <<>>)

\* the elements of a list
Range(f) == {f[i] : i \in DOMAIN f}

\* sum(list) for a list of numbers
RECURSIVE SumSeq(_)
SumSeq(f) == IF f = <<>> THEN 0 ELSE Head(f) + SumSeq(Tail(f))

\* string literals of the source
Str_language == <<"l", "a", "n", "g", "u", "a", "g", "e">>

Str_beginner == <<"b", "e", "g", "i", "n", "n", "e", "r">>

Str_intermediate == <<"i", "n", "t", "e", "r", "m", "e", "d", "i", "a", "t", "e">>

Str_advanced == <<"a", "d", "v", "a", "n", "c", "e", "d">>

Str_pr == <<"p", "r">>

Str_bug == <<"b", "u", "g">>

Str_documentation == <<"d", "o", "c", "u", "m", "e", "n", "t", "a", "t", "i", "o", "n">>

\* language_groups of _are_related_languages
language_groups ==
    { \* javascript, typescript, coffeescript, jsx, node.js, nodejs
      { <<"j", "a", "v", "a", "s", "c", "r", "i", "p", "t">>,
        <<"t", "y", "p", "e", "s", "c", "r", "i", "p", "t">>,
        <<"c", "o", "f", "f", "e", "e", "s", "c", "r", "i", "p", "t">>,
        <<"j", "s", "x">>,
        <<"n", "o", "d", "e", ".", "j", "s">>,
        <<"n", "o", "d", "e", "j", "s">> }
    , \* python, cython, jython
      { <<"p", "y", "t", "h", "o", "n">>,
        <<"c", "y", "t", "h", "o", "n">>,
        <<"j", "y", "t", "h", "o", "n">> }
    , \* java, kotlin, scala
      { <<"j", "a", "v", "a">>,
        <<"k", "o", "t", "l", "i", "n">>,
        <<"s", "c", "a", "l", "a">> }
    , \* c, c++, c#, objective-c
      { <<"c">>,
        <<"c", "+", "+">>,
        <<"c", "#">>,
        <<"o", "b", "j", "e", "c", "t", "i", "v", "e", "-", "c">> }
    , \* ruby, crystal
      { <<"r", "u", "b", "y">>,
        <<"c", "r", "y", "s", "t", "a", "l">> }
    , \* php, hack
      { <<"p", "h", "p">>,
        <<"h", "a", "c", "k">> }
    , \* go, golang
      { <<"g", "o">>,
        <<"g", "o", "l", "a", "n", "g">> }
    , \* rust, nim
      { <<"r", "u", "s", "t">>,
        <<"n", "i", "m">> }
    , \* swift, objective-c
      { <<"s", "w", "i", "f", "t">>,
        <<"o", "b", "j", "e", "c", "t", "i", "v", "e", "-", "c">> }
    , \* haskell, purescript, elm
      { <<"h", "a", "s", "k", "e", "l", "l">>,
        <<"p", "u", "r", "e", "s", "c", "r", "i", "p", "t">>,
        <<"e", "l", "m">> }
    , \* clojure, scheme, lisp, common lisp
      { <<"c", "l", "o", "j", "u", "r", "e">>,
        <<"s", "c", "h", "e", "m", "e">>,
        <<"l", "i", "s", "p">>,
        <<"c", "o", "m", "m", "o", "n", " ", "l", "i", "s", "p">> }
    , \* r, julia
      { <<"r">>,
        <<"j", "u", "l", "i", "a">> }
    , \* perl, raku
      { <<"p", "e", "r", "l">>,
        <<"r", "a", "k", "u">> }
    , \* shell, bash, zsh, powershell
      { <<"s", "h", "e", "l", "l">>,
        <<"b", "a", "s", "h">>,
        <<"z", "s", "h">>,
        <<"p", "o", "w", "e", "r", "s", "h", "e", "l", "l">> }
    , \* sql, plsql, t-sql, mysql, postgresql, sqlite
      { <<"s", "q", "l">>,
        <<"p", "l", "s", "q", "l">>,
        <<"t", "-", "s", "q", "l">>,
        <<"m", "y", "s", "q", "l">>,
        <<"p", "o", "s", "t", "g", "r", "e", "s", "q", "l">>,
        <<"s", "q", "l", "i", "t", "e">> }
    }

\* tech_groups of _are_related_technologies
tech_groups ==
    { \* react, react.js, reactjs, react native, redux, flux
      { <<"r", "e", "a", "c", "t">>,
        <<"r", "e", "a", "c", "t", ".", "j", "s">>,
        <<"r", "e", "a", "c", "t", "j", "s">>,
        <<"r", "e", "a", "c", "t", " ", "n", "a", "t", "i", "v", "e">>,
        <<"r", "e", "d", "u", "x">>,
        <<"f", "l", "u", "x">> }
    , \* angular, angularjs, angular.js, angular2, angular 2
      { <<"a", "n", "g", "u", "l", "a", "r">>,
        <<"a", "n", "g", "u", "l", "a", "r", "j", "s">>,
        <<"a", "n", "g", "u", "l", "a", "r", ".", "j", "s">>,
        <<"a", "n", "g", "u", "l", "a", "r", "2">>,
        <<"a", "n", "g", "u", "l", "a", "r", " ", "2">> }
    , \* vue, vue.js, vuejs, vuex
      { <<"v", "u", "e">>,
        <<"v", "u", "e", ".", "j", "s">>,
        <<"v", "u", "e", "j", "s">>,
        <<"v", "u", "e", "x">> }
    , \* django, flask, pyramid, fastapi, tornado
      { <<"d", "j", "a", "n", "g", "o">>,
        <<"f", "l", "a", "s", "k">>,
        <<"p", "y", "r", "a", "m", "i", "d">>,
        <<"f", "a", "s", "t", "a", "p", "i">>,
        <<"t", "o", "r", "n", "a", "d", "o">> }
    , \* express, koa, hapi, nest.js, nestjs, next.js, nextjs
      { <<"e", "x", "p", "r", "e", "s", "s">>,
        <<"k", "o", "a">>,
        <<"h", "a", "p", "i">>,
        <<"n", "e", "s", "t", ".", "j", "s">>,
        <<"n", "e", "s", "t", "j", "s">>,
        <<"n", "e", "x", "t", ".", "j", "s">>,
        <<"n", "e", "x", "t", "j", "s">> }
    , \* spring, spring boot, hibernate, jakarta ee, java ee
      { <<"s", "p", "r", "i", "n", "g">>,
        <<"s", "p", "r", "i", "n", "g", " ", "b", "o", "o", "t">>,
        <<"h", "i", "b", "e", "r", "n", "a", "t", "e">>,
        <<"j", "a", "k", "a", "r", "t", "a", " ", "e", "e">>,
        <<"j", "a", "v", "a", " ", "e", "e">> }
    , \* laravel, symfony, codeigniter, cakephp
      { <<"l", "a", "r", "a", "v", "e", "l">>,
        <<"s", "y", "m", "f", "o", "n", "y">>,
        <<"c", "o", "d", "e", "i", "g", "n", "i", "t", "e", "r">>,
        <<"c", "a", "k", "e", "p", "h", "p">> }
    , \* rails, ruby on rails, sinatra, hanami
      { <<"r", "a", "i", "l", "s">>,
        <<"r", "u", "b", "y", " ", "o", "n", " ", "r", "a", "i", "l", "s">>,
        <<"s", "i", "n", "a", "t", "r", "a">>,
        <<"h", "a", "n", "a", "m", "i">> }
    , \* tensorflow, keras, pytorch, scikit-learn, sklearn
      { <<"t", "e", "n", "s", "o", "r", "f", "l", "o", "w">>,
        <<"k", "e", "r", "a", "s">>,
        <<"p", "y", "t", "o", "r", "c", "h">>,
        <<"s", "c", "i", "k", "i", "t", "-", "l", "e", "a", "r", "n">>,
        <<"s", "k", "l", "e", "a", "r", "n">> }
    , \* mysql, postgresql, sqlite, sql server, oracle
      { <<"m", "y", "s", "q", "l">>,
        <<"p", "o", "s", "t", "g", "r", "e", "s", "q", "l">>,
        <<"s", "q", "l", "i", "t", "e">>,
        <<"s", "q", "l", " ", "s", "e", "r", "v", "e", "r">>,
        <<"o", "r", "a", "c", "l", "e">> }
    , \* mongodb, couchdb, firebase, dynamodb, cosmosdb
      { <<"m", "o", "n", "g", "o", "d", "b">>,
        <<"c", "o", "u", "c", "h", "d", "b">>,
        <<"f", "i", "r", "e", "b", "a", "s", "e">>,
        <<"d", "y", "n", "a", "m", "o", "d", "b">>,
        <<"c", "o", "s", "m", "o", "s", "d", "b">> }
    , \* redis, memcached, caching
      { <<"r", "e", "d", "i", "s">>,
        <<"m", "e", "m", "c", "a", "c", "h", "e", "d">>,
        <<"c", "a", "c", "h", "i", "n", "g">> }
    , \* docker, kubernetes, k8s, containerization
      { <<"d", "o", "c", "k", "e", "r">>,
        <<"k", "u", "b", "e", "r", "n", "e", "t", "e", "s">>,
        <<"k", "8", "s">>,
        <<"c", "o", "n", "t", "a", "i", "n", "e", "r", "i", "z", "a", "t", "i", "o", "n">> }
    , \* aws, azure, gcp, cloud
      { <<"a", "w", "s">>,
        <<"a", "z", "u", "r", "e">>,
        <<"g", "c", "p">>,
        <<"c", "l", "o", "u", "d">> }
    , \* html, css, sass, scss, less, stylus
      { <<"h", "t", "m", "l">>,
        <<"c", "s", "s">>,
        <<"s", "a", "s", "s">>,
        <<"s", "c", "s", "s">>,
        <<"l", "e", "s", "s">>,
        <<"s", "t", "y", "l", "u", "s">> }
    , \* webpack, babel, parcel, rollup, vite
      { <<"w", "e", "b", "p", "a", "c", "k">>,
        <<"b", "a", "b", "e", "l">>,
        <<"p", "a", "r", "c", "e", "l">>,
        <<"r", "o", "l", "l", "u", "p">>,
        <<"v", "i", "t", "e">> }
    , \* git, github, gitlab, bitbucket, version control
      { <<"g", "i", "t">>,
        <<"g", "i", "t", "h", "u", "b">>,
        <<"g", "i", "t", "l", "a", "b">>,
        <<"b", "i", "t", "b", "u", "c", "k", "e", "t">>,
        <<"v", "e", "r", "s", "i", "o", "n", " ", "c", "o", "n", "t", "r", "o", "l">> }
    , \* rest, graphql, api, soap, grpc
      { <<"r", "e", "s", "t">>,
        <<"g", "r", "a", "p", "h", "q", "l">>,
        <<"a", "p", "i">>,
        <<"s", "o", "a", "p">>,
        <<"g", "r", "p", "c">> }
    , \* oauth, jwt, authentication, authorization
      { <<"o", "a", "u", "t", "h">>,
        <<"j", "w", "t">>,
        <<"a", "u", "t", "h", "e", "n", "t", "i", "c", "a", "t", "i", "o", "n">>,
        <<"a", "u", "t", "h", "o", "r", "i", "z", "a", "t", "i", "o", "n">> }
    , \* linux, unix, posix, bash, shell
      { <<"l", "i", "n", "u", "x">>,
        <<"u", "n", "i", "x">>,
        <<"p", "o", "s", "i", "x">>,
        <<"b", "a", "s", "h">>,
        <<"s", "h", "e", "l", "l">> }
    }

\* domain_keywords of _extract_student_domains and _extract_org_domains, in
\* insertion order (the two tables are the same)
domain_keywords ==
    << \* web: web, frontend, backend, fullstack, javascript, html, css
      [domain |-> <<"w", "e", "b">>,
       keywords |-> { <<"w", "e", "b">>,
                     <<"f", "r", "o", "n", "t", "e", "n", "d">>,
                     <<"b", "a", "c", "k", "e", "n", "d">>,
                     <<"f", "u", "l", "l", "s", "t", "a", "c", "k">>,
                     <<"j", "a", "v", "a", "s", "c", "r", "i", "p", "t">>,
                     <<"h", "t", "m", "l">>,
                     <<"c", "s", "s">> } ]
    , \* mobile: mobile, android, ios, flutter, react native
      [domain |-> <<"m", "o", "b", "i", "l", "e">>,
       keywords |-> { <<"m", "o", "b", "i", "l", "e">>,
                     <<"a", "n", "d", "r", "o", "i", "d">>,
                     <<"i", "o", "s">>,
                     <<"f", "l", "u", "t", "t", "e", "r">>,
                     <<"r", "e", "a", "c", "t", " ", "n", "a", "t", "i", "v", "e">> } ]
    , \* data science: data science, machine learning, ml, ai, artificial intelligence, data
      [domain |-> <<"d", "a", "t", "a", " ", "s", "c", "i", "e", "n", "c", "e">>,
       keywords |-> { <<"d", "a", "t", "a", " ", "s", "c", "i", "e", "n", "c", "e">>,
                     <<"m", "a", "c", "h", "i", "n", "e", " ", "l", "e", "a", "r", "n", "i", "n", "g">>,
                     <<"m", "l">>,
                     <<"a", "i">>,
                     <<"a", "r", "t", "i", "f", "i", "c", "i", "a", "l", " ", "i", "n", "t", "e", "l", "l", "i", "g", "e", "n", "c", "e">>,
                     <<"d", "a", "t", "a">> } ]
    , \* devops: devops, cloud, kubernetes, docker, ci/cd, deployment
      [domain |-> <<"d", "e", "v", "o", "p", "s">>,
       keywords |-> { <<"d", "e", "v", "o", "p", "s">>,
                     <<"c", "l", "o", "u", "d">>,
                     <<"k", "u", "b", "e", "r", "n", "e", "t", "e", "s">>,
                     <<"d", "o", "c", "k", "e", "r">>,
                     <<"c", "i", "/", "c", "d">>,
                     <<"d", "e", "p", "l", "o", "y", "m", "e", "n", "t">> } ]
    , \* security: security, cryptography, encryption, privacy
      [domain |-> <<"s", "e", "c", "u", "r", "i", "t", "y">>,
       keywords |-> { <<"s", "e", "c", "u", "r", "i", "t", "y">>,
                     <<"c", "r", "y", "p", "t", "o", "g", "r", "a", "p", "h", "y">>,
                     <<"e", "n", "c", "r", "y", "p", "t", "i", "o", "n">>,
                     <<"p", "r", "i", "v", "a", "c", "y">> } ]
    , \* gaming: game, gaming, unity, unreal
      [domain |-> <<"g", "a", "m", "i", "n", "g">>,
       keywords |-> { <<"g", "a", "m", "e">>,
                     <<"g", "a", "m", "i", "n", "g">>,
                     <<"u", "n", "i", "t", "y">>,
                     <<"u", "n", "r", "e", "a", "l">> } ]
    , \* embedded: embedded, iot, hardware, arduino, raspberry pi
      [domain |-> <<"e", "m", "b", "e", "d", "d", "e", "d">>,
       keywords |-> { <<"e", "m", "b", "e", "d", "d", "e", "d">>,
                     <<"i", "o", "t">>,
                     <<"h", "a", "r", "d", "w", "a", "r", "e">>,
                     <<"a", "r", "d", "u", "i", "n", "o">>,
                     <<"r", "a", "s", "p", "b", "e", "r", "r", "y", " ", "p", "i">> } ]
    , \* blockchain: blockchain, crypto, web3, ethereum, smart contract
      [domain |-> <<"b", "l", "o", "c", "k", "c", "h", "a", "i", "n">>,
       keywords |-> { <<"b", "l", "o", "c", "k", "c", "h", "a", "i", "n">>,
                     <<"c", "r", "y", "p", "t", "o">>,
                     <<"w", "e", "b", "3">>,
                     <<"e", "t", "h", "e", "r", "e", "u", "m">>,
                     <<"s", "m", "a", "r", "t", " ", "c", "o", "n", "t", "r", "a", "c", "t">> } ]
    >>


(***************************************************************************)
(* Component scores.  A score is an integer number of 1/ScoreScale points, *)
(* so that the averages of _calculate_skill_alignment are exact for lists  *)
(* of up to six elements.                                                  *)
(***************************************************************************)
ScoreScale == 3 * 4 * 5

\* the least element of a non-empty set of integers
MinOf(S) == CHOOSE i \in S : \A j \in S : i <= j

\* round(num / den) of Python 3 for den > 0: to nearest, ties to even
RoundHalfEven(num, den) ==
    LET q == num \div den
        r == num % den
    IN  IF 2 * r < den THEN q
        ELSE IF 2 * r > den THEN q + 1
        ELSE IF q % 2 = 0 THEN q ELSE q + 1

\* the if / elif / else on skill['proficiency'] used for every kind of match
ByProficiency(proficiency, advanced, intermediate, beginner) ==
    IF proficiency = Str_advanced THEN advanced
    ELSE IF proficiency = Str_intermediate THEN intermediate
    ELSE beginner

\* _are_related_languages
AreRelatedLanguages(lang1, lang2) ==
    \E group \in language_groups : Lower(lang1) \in group /\ Lower(lang2) \in group

\* _are_related_technologies
AreRelatedTechnologies(tech1, tech2) ==
    LET t1 == Lower(tech1)
        t2 == Lower(tech2)
    IN  \/ \E group \in tech_groups : t1 \in group /\ t2 \in group
        \/ (Contains(t1, t2) \/ Contains(t2, t1)) /\ Min(Len(t1), Len(t2)) > 3

\* student_skills of _calculate_skill_alignment
StudentSkills(student) ==
    LET skills == Get(student, "skills", <<>>)
    IN  [i \in 1..Len(skills) |->
            [name |-> Lower(Get(skills[i], "skill_name", <<>>)),
             type |-> Lower(Get(skills[i], "skill_type", <<>>)),
             proficiency |-> Lower(Get(skills[i], "proficiency", Str_beginner))]]

RequiredSkills(issue) == Get(issue, "required_skills", <<>>)

\* the positions of the required skills that next(...) would accept
PrimaryMatches(issue) ==
    {i \in 1..Len(RequiredSkills(issue)) :
        Lower(RequiredSkills(issue)[i]) = Lower(Get(issue, "primary_language", <<>>))}

\* primary_language is not None
HasPrimaryLanguage(issue) == PrimaryMatches(issue) # {}

\* primary_language = next((s for s in required_skills if ...), None)
PrimaryLanguage(issue) == RequiredSkills(issue)[MinOf(PrimaryMatches(issue))]

\* the loop over student_skills for the primary language: the first skill
\* typed language that is the primary language or related to it decides
PrimaryLanguageScore(student, issue) ==
    IF ~HasPrimaryLanguage(issue) \/ PrimaryLanguage(issue) = <<>>
    THEN 0
    ELSE LET sk == StudentSkills(student)
             pl == Lower(PrimaryLanguage(issue))
             hits == {i \in DOMAIN sk :
                        /\ sk[i].type = Str_language
                        /\ (sk[i].name = pl \/ AreRelatedLanguages(sk[i].name, pl))}
         IN  IF hits = {} THEN 0
             ELSE IF sk[MinOf(hits)].name = pl
                  THEN ByProficiency(sk[MinOf(hits)].proficiency, 100, 90, 80)
                  ELSE ByProficiency(sk[MinOf(hits)].proficiency, 70, 60, 50)

\* the inner loop over student_skills for one required skill, from position i
\* with the best score so far: a direct match assigns and breaks, a related
\* match takes the maximum and goes on
RECURSIVE BestScoreFrom(_, _, _, _)
BestScoreFrom(sk, name, i, best) ==
    IF i > Len(sk) THEN best
    ELSE IF sk[i].name = name
         THEN ByProficiency(sk[i].proficiency, 100, 80, 60)
    ELSE IF AreRelatedTechnologies(sk[i].name, name)
         THEN BestScoreFrom(sk, name, i + 1,
                            Max(best, ByProficiency(sk[i].proficiency, 70, 50, 30)))
    ELSE BestScoreFrom(sk, name, i + 1, best)

\* framework_scores: one best score per required skill other than the
\* primary language (defined when primary_language is not None)
RECURSIVE FrameworkScoresFrom(_, _, _)
FrameworkScoresFrom(student, issue, i) ==
    LET req == RequiredSkills(issue)
    IN  IF i > Len(req) THEN <<>>
        ELSE IF Lower(req[i]) = Lower(PrimaryLanguage(issue))
             THEN FrameworkScoresFrom(student, issue, i + 1)
             ELSE <<BestScoreFrom(StudentSkills(student), Lower(req[i]), 1, 0)>>
                    \o FrameworkScoresFrom(student, issue, i + 1)

FrameworkScores(student, issue) == FrameworkScoresFrom(student, issue, 1)

\* proficiency_scores: proficiency_mapping.get(skill['proficiency'], 0)
ProficiencyScores(student) ==
    LET sk == StudentSkills(student)
    IN  [i \in 1..Len(sk) |->
            IF sk[i].proficiency = Str_beginner THEN 50
            ELSE IF sk[i].proficiency = Str_intermediate THEN 80
            ELSE IF sk[i].proficiency = Str_advanced THEN 100
            ELSE 0]

\* primary_language.lower() on None: the first pass of the framework loop
\* raises AttributeError when no required skill is the primary language
SkillAlignmentRaises(student, issue) ==
    RequiredSkills(issue) # <<>> /\ ~HasPrimaryLanguage(issue)

\* _calculate_skill_alignment (when it does not raise), in score units
CalculateSkillAlignment(student, issue) ==
    IF RequiredSkills(issue) = <<>>
    THEN 50 * ScoreScale
    ELSE LET fw == FrameworkScores(student, issue)
             pr == ProficiencyScores(student)
         IN  ( 5 * PrimaryLanguageScore(student, issue) * ScoreScale
               + 3 * ((SumSeq(fw) * ScoreScale) \div Max(Len(fw), 1))
               + 2 * ((SumSeq(pr) * ScoreScale) \div Max(Len(pr), 1)) ) \div 10

\* _estimate_student_skill_level
EstimateStudentSkillLevel(student) ==
    LET skills == Get(student, "skills", <<>>)
        count(p) == Cardinality({i \in 1..Len(skills) :
                                    Lower(Get(skills[i], "proficiency", <<>>)) = p})
        beginner_count == count(Str_beginner)
        intermediate_count == count(Str_intermediate)
        advanced_count == count(Str_advanced)
        total_skills == beginner_count + intermediate_count + advanced_count
    IN  IF skills = <<>> THEN 3
        ELSE IF total_skills = 0 THEN 3
        ELSE RoundHalfEven(beginner_count * 2 + intermediate_count * 5 + advanced_count * 9,
                           total_skills)

\* learning_goals of _calculate_learning_opportunity
LearningGoals(student) ==
    LET words == Split(Lower(Get(student, "gsoc_goals", <<>>)))
    IN  {words[i] : i \in {j \in 1..Len(words) :
            Len(words[j]) > 3 /\ Lower(words[j]) \notin
                { <<"w", "a", "n", "t">>, <<"l", "e", "a", "r", "n">>, <<"w", "i", "t", "h">>, <<"a", "n", "d">>, <<"t", "h", "e">> } }}

\* _calculate_learning_opportunity with the number of new skills looked at
\* before their overlap with the goals
CalculateLearningOpportunityCountFirst(student, issue) ==
    LET req == RequiredSkills(issue)
        names == {Lower(Get(sk, "skill_name", <<>>)) : sk \in Range(Get(student, "skills", <<>>))}
        new_skills == {i \in 1..Len(req) : Lower(req[i]) \notin names}
        aligned_new_skills ==
            {i \in new_skills : \E goal \in LearningGoals(student) :
                Contains(goal, Lower(req[i])) \/ Contains(Lower(req[i]), goal)}
    IN  IF req = <<>> THEN 50
        ELSE IF new_skills = {} THEN 30
        ELSE IF Cardinality(new_skills) >= 2 THEN 70
        ELSE IF aligned_new_skills # {} THEN 100
        ELSE 50

\* _calculate_learning_opportunity
CalculateLearningOpportunity(student, issue) ==
    LET req == RequiredSkills(issue)
        names == {Lower(Get(sk, "skill_name", <<>>)) : sk \in Range(Get(student, "skills", <<>>))}
        new_skills == {i \in 1..Len(req) : Lower(req[i]) \notin names}
        aligned_new_skills ==
            {i \in new_skills : \E goal \in LearningGoals(student) :
                Contains(goal, Lower(req[i])) \/ Contains(Lower(req[i]), goal)}
    IN  IF req = <<>> THEN 50
        ELSE IF new_skills = {} THEN 30
        ELSE IF aligned_new_skills # {} THEN 100
        ELSE IF Cardinality(new_skills) >= 2 THEN 70
        ELSE 50

\* the chain on difficulty_gap without its last branch: a negative gap
\* keeps the initial 0
DifficultyGapScoreNoNegativeRow(difficulty_gap) ==
    IF difficulty_gap = 0 THEN 100
    ELSE IF difficulty_gap = 1 THEN 90
    ELSE IF difficulty_gap = 2 THEN 70
    ELSE IF difficulty_gap = 3 THEN 40
    ELSE 0

\* the if / elif chain on difficulty_gap
DifficultyGapScore(difficulty_gap) ==
    IF difficulty_gap = 0 THEN 100
    ELSE IF difficulty_gap = 1 THEN 90
    ELSE IF difficulty_gap = 2 THEN 70
    ELSE IF difficulty_gap = 3 THEN 40
    ELSE IF difficulty_gap > 3 THEN 0
    ELSE IF difficulty_gap < 0 THEN 60
    ELSE 0

\* _calculate_difficulty_fit, in score units
CalculateDifficultyFit(student, issue) ==
    LET difficulty_gap == Get(issue, "difficulty_score", 5) - EstimateStudentSkillLevel(student)
    IN  ( (7 * DifficultyGapScore(difficulty_gap)
           + 3 * CalculateLearningOpportunity(student, issue)) * ScoreScale ) \div 10

\* the loop over target_orgs with the names compared as they are written
TargetOrgMatchScoreCaseSensitive(student, issue) ==
    LET org_name == Get(issue, "org_name", <<>>)
        targets == Get(student, "target_orgs", <<>>)
        hits == {i \in 1..Len(targets) :
                    Get(targets[i], "org_name", <<>>) = org_name}
        priority == Get(targets[MinOf(hits)], "priority", 3)
    IN  IF hits = {} THEN 0
        ELSE IF priority = 1 THEN 100
        ELSE IF priority = 2 THEN 80
        ELSE 60

\* the loop over target_orgs: the first target whose name equals the issue's
\* organization, case-insensitively, decides; 0 when there is none
TargetOrgMatchScore(student, issue) ==
    LET org_name == Get(issue, "org_name", <<>>)
        targets == Get(student, "target_orgs", <<>>)
        hits == {i \in 1..Len(targets) :
                    Lower(Get(targets[i], "org_name", <<>>)) = Lower(org_name)}
        priority == Get(targets[MinOf(hits)], "priority", 3)
    IN  IF hits = {} THEN 0
        ELSE IF priority = 1 THEN 100
        ELSE IF priority = 2 THEN 80
        ELSE 60

\* the domains whose keywords occur in the text
DomainsIn(text) ==
    {domain_keywords[d].domain : d \in {e \in DOMAIN domain_keywords :
        \E keyword \in domain_keywords[e].keywords : Contains(keyword, text)}}

\* "for domain, keywords in domain_keywords:" iterates the keys of the dict
\* and unpacks each key, a string, into two names: ValueError unless the key
\* has exactly two characters.  The loop runs once per student skill.
ExtractStudentDomainsRaises(student) ==
    /\ Get(student, "skills", <<>>) # <<>>
    /\ \E d \in DOMAIN domain_keywords : Len(domain_keywords[d].domain) # 2

\* _extract_student_domains (when it does not raise): the skills loop adds
\* nothing, because its body never runs without raising
ExtractStudentDomains(student) ==
    DomainsIn(Lower(Get(student, "gsoc_goals", <<>>)))

\* _extract_org_domains
ExtractOrgDomains(issue) ==
    LET combined_text == Lower(Get(issue, "org_name", <<>>)) \o <<" ">>
                            \o Lower(Get(issue, "org_description", <<>>))
        req == RequiredSkills(issue)
    IN  DomainsIn(combined_text)
            \cup UNION {DomainsIn(Lower(req[i])) : i \in 1..Len(req)}

\* _calculate_org_fit raises what _extract_student_domains raises, when it
\* gets there
OrgFitRaises(student, issue) ==
    TargetOrgMatchScore(student, issue) = 0 /\ ExtractStudentDomainsRaises(student)

\* target_org_score after the fallback on related domains
TargetOrgScore(student, issue) ==
    IF TargetOrgMatchScore(student, issue) # 0
    THEN TargetOrgMatchScore(student, issue)
    ELSE IF ExtractStudentDomains(student) \cap ExtractOrgDomains(issue) # {}
         THEN 40
         ELSE 0

\* previous_contributions_score
PreviousContributionsScore(student, issue) ==
    LET org_name == Get(issue, "org_name", <<>>)
        contributions == Get(student, "contributions", <<>>)
        here == {i \in 1..Len(contributions) :
                    StartsWith(Get(contributions[i], "repo_name", <<>>), org_name \o <<"/">>)}
        accepted_count == Cardinality({i \in here :
                    "contribution_type" \in DOMAIN contributions[i]
                    /\ contributions[i].contribution_type = Str_pr})
        pending_count == Cardinality(here) - accepted_count
    IN  IF accepted_count > 1 THEN 100
        ELSE IF accepted_count = 1 THEN 80
        ELSE IF pending_count > 0 THEN 50
        ELSE 0

\* _calculate_org_fit (when it does not raise), in score units
CalculateOrgFit(student, issue) ==
    ( (6 * TargetOrgScore(student, issue)
       + 4 * PreviousContributionsScore(student, issue)) * ScoreScale ) \div 10

\* time_requirement_score with the four bounds included in their brackets
TimeRequirementScoreInclusive(student, issue) ==
    LET issue_time == Get(issue, "estimated_time_hours", 10)
        hours == Get(student, "available_hours_weekly", 10)
        \* time_ratio > num / den
        above(num, den) ==
            IF issue_time > 0
            THEN hours * den >= num * 3 * issue_time
            ELSE 2 * den >= num
    IN  IF above(2, 1) THEN 100
        ELSE IF above(3, 2) THEN 90
        ELSE IF above(1, 1) THEN 70
        ELSE IF above(4, 5) THEN 40
        ELSE 0

\* time_requirement_score: time_ratio = (available_hours_weekly / 3) / issue_time
\* compared with 2.0, 1.5, 1.0 and 0.8 by cross-multiplication
TimeRequirementScore(student, issue) ==
    LET issue_time == Get(issue, "estimated_time_hours", 10)
        hours == Get(student, "available_hours_weekly", 10)
        \* time_ratio > num / den
        above(num, den) ==
            IF issue_time > 0
            THEN hours * den > num * 3 * issue_time
            ELSE 2 * den > num
    IN  IF above(2, 1) THEN 100
        ELSE IF above(3, 2) THEN 90
        ELSE IF above(1, 1) THEN 70
        ELSE IF above(4, 5) THEN 40
        ELSE 0

\* urgency_score of _calculate_time_fit
UrgencyScore == 80

\* _calculate_time_fit, in score units
CalculateTimeFit(student, issue) ==
    ( (8 * TimeRequirementScore(student, issue) + 2 * UrgencyScore) * ScoreScale ) \div 10

\* _calculate_visibility with the issue type looked at before the priority labels
CalculateVisibilityTypeFirst(issue) ==
    LET labels == {Lower(l) : l \in Range(Get(issue, "labels", <<>>))}
        high_visibility_labels == { <<"f", "e", "a", "t", "u", "r", "e">>, <<"e", "n", "h", "a", "n", "c", "e", "m", "e", "n", "t">>, <<"c", "o", "r", "e">>, <<"c", "r", "i", "t", "i", "c", "a", "l">>, <<"h", "i", "g", "h", "-", "p", "r", "i", "o", "r", "i", "t", "y">> }
        medium_visibility_labels == { <<"i", "m", "p", "r", "o", "v", "e", "m", "e", "n", "t">>, <<"m", "o", "d", "e", "r", "a", "t", "e">>, <<"m", "e", "d", "i", "u", "m", "-", "p", "r", "i", "o", "r", "i", "t", "y">> }
        low_visibility_labels == { <<"m", "i", "n", "o", "r">>, <<"t", "r", "i", "v", "i", "a", "l">>, <<"l", "o", "w", "-", "p", "r", "i", "o", "r", "i", "t", "y">> }
    IN  IF Str_bug \in labels THEN 70
        ELSE IF Str_documentation \in labels THEN 40
        ELSE IF high_visibility_labels \cap labels # {} THEN 100
        ELSE IF medium_visibility_labels \cap labels # {} THEN 70
        ELSE IF low_visibility_labels \cap labels # {} THEN 40
        ELSE 60

\* _calculate_visibility
CalculateVisibility(issue) ==
    LET labels == {Lower(l) : l \in Range(Get(issue, "labels", <<>>))}
        high_visibility_labels == { <<"f", "e", "a", "t", "u", "r", "e">>, <<"e", "n", "h", "a", "n", "c", "e", "m", "e", "n", "t">>, <<"c", "o", "r", "e">>, <<"c", "r", "i", "t", "i", "c", "a", "l">>, <<"h", "i", "g", "h", "-", "p", "r", "i", "o", "r", "i", "t", "y">> }
        medium_visibility_labels == { <<"i", "m", "p", "r", "o", "v", "e", "m", "e", "n", "t">>, <<"m", "o", "d", "e", "r", "a", "t", "e">>, <<"m", "e", "d", "i", "u", "m", "-", "p", "r", "i", "o", "r", "i", "t", "y">> }
        low_visibility_labels == { <<"m", "i", "n", "o", "r">>, <<"t", "r", "i", "v", "i", "a", "l">>, <<"l", "o", "w", "-", "p", "r", "i", "o", "r", "i", "t", "y">> }
    IN  IF high_visibility_labels \cap labels # {} THEN 100
        ELSE IF medium_visibility_labels \cap labels # {} THEN 70
        ELSE IF low_visibility_labels \cap labels # {} THEN 40
        ELSE IF Str_bug \in labels THEN 70
        ELSE IF Str_documentation \in labels THEN 40
        ELSE 60

\* _calculate_mentor_activity
CalculateMentorActivity(issue) ==
    LET comments_count == Get(issue, "comments_count", 0)
    IN  IF comments_count > 5 THEN 100
        ELSE IF comments_count > 2 THEN 80
        ELSE IF comments_count > 0 THEN 50
        ELSE 30

\* _calculate_competition_level
CalculateCompetitionLevel(issue) ==
    LET comments_count == Get(issue, "comments_count", 0)
    IN  IF comments_count > 10 THEN 20
        ELSE IF comments_count > 5 THEN 50
        ELSE IF comments_count > 2 THEN 80
        ELSE 100

\* _calculate_strategic_value, in score units
CalculateStrategicValue(student, issue) ==
    ( (4 * CalculateVisibility(issue) + 3 * CalculateMentorActivity(issue)
       + 3 * CalculateCompetitionLevel(issue)) * ScoreScale ) \div 10

(***************************************************************************)
(* Profile and item records supplied by the stores.  Student1, Student2,   *)
(* Issue1, Issue2 and Issue4 are those of test_matching_algorithm.py; the  *)
(* others lack optional fields, identifiers, a primary language among the  *)
(* required skills, or a target organization for the issue.                *)
(***************************************************************************)
\* {"student_id": "student1", "available_hours_weekly": 20, "skills":
\* [["Python", "language", "advanced"], ["Django", "framework",
\* "intermediate"], ["JavaScript", "language", "intermediate"]],
\* "target_orgs": [["Zulip", 1], ["Mozilla", 2]], "gsoc_goals": "I want to
\* improve my Python and web development skills."}
Student1 ==
    [student_id |-> "student1",
     available_hours_weekly |-> 20,
     skills |-> <<[skill_name |-> <<"P", "y", "t", "h", "o", "n">>,
                   skill_type |-> <<"l", "a", "n", "g", "u", "a", "g", "e">>,
                   proficiency |-> <<"a", "d", "v", "a", "n", "c", "e", "d">>],
                  [skill_name |-> <<"D", "j", "a", "n", "g", "o">>,
                   skill_type |-> <<"f", "r", "a", "m", "e", "w", "o", "r", "k">>,
                   proficiency |-> <<"i", "n", "t", "e", "r", "m", "e", "d", "i", "a", "t", "e">>],
                  [skill_name |-> <<"J", "a", "v", "a", "S", "c", "r", "i", "p", "t">>,
                   skill_type |-> <<"l", "a", "n", "g", "u", "a", "g", "e">>,
                   proficiency |-> <<"i", "n", "t", "e", "r", "m", "e", "d", "i", "a", "t", "e">>]>>,
     target_orgs |-> <<[org_name |-> <<"Z", "u", "l", "i", "p">>,
                        priority |-> 1],
                       [org_name |-> <<"M", "o", "z", "i", "l", "l", "a">>,
                        priority |-> 2]>>,
     gsoc_goals |-> <<"I", " ", "w", "a", "n", "t", " ", "t", "o", " ", "i", "m", "p", "r", "o", "v", "e", " ", "m", "y", " ", "P", "y", "t", "h", "o", "n", " ", "a", "n", "d", " ", "w", "e", "b", " ", "d", "e", "v", "e", "l", "o", "p", "m", "e", "n", "t", " ", "s", "k", "i", "l", "l", "s", ".">>]

\* {"student_id": "student2", "available_hours_weekly": 10, "skills":
\* [["JavaScript", "language", "beginner"], ["HTML", "language",
\* "intermediate"], ["CSS", "language", "intermediate"]], "target_orgs":
\* [["Mozilla", 1]], "gsoc_goals": "I want to learn web development and
\* contribute to open source."}
Student2 ==
    [student_id |-> "student2",
     available_hours_weekly |-> 10,
     skills |-> <<[skill_name |-> <<"J", "a", "v", "a", "S", "c", "r", "i", "p", "t">>,
                   skill_type |-> <<"l", "a", "n", "g", "u", "a", "g", "e">>,
                   proficiency |-> <<"b", "e", "g", "i", "n", "n", "e", "r">>],
                  [skill_name |-> <<"H", "T", "M", "L">>,
                   skill_type |-> <<"l", "a", "n", "g", "u", "a", "g", "e">>,
                   proficiency |-> <<"i", "n", "t", "e", "r", "m", "e", "d", "i", "a", "t", "e">>],
                  [skill_name |-> <<"C", "S", "S">>,
                   skill_type |-> <<"l", "a", "n", "g", "u", "a", "g", "e">>,
                   proficiency |-> <<"i", "n", "t", "e", "r", "m", "e", "d", "i", "a", "t", "e">>]>>,
     target_orgs |-> <<[org_name |-> <<"M", "o", "z", "i", "l", "l", "a">>,
                        priority |-> 1]>>,
     gsoc_goals |-> <<"I", " ", "w", "a", "n", "t", " ", "t", "o", " ", "l", "e", "a", "r", "n", " ", "w", "e", "b", " ", "d", "e", "v", "e", "l", "o", "p", "m", "e", "n", "t", " ", "a", "n", "d", " ", "c", "o", "n", "t", "r", "i", "b", "u", "t", "e", " ", "t", "o", " ", "o", "p", "e", "n", " ", "s", "o", "u", "r", "c", "e", ".">>]

\* {"student_id": "student3"}
StudentBare ==
    [student_id |-> "student3"]

\* {"student_id": "student4", "available_hours_weekly": 0, "skills": [],
\* "target_orgs": [["zulip"]], "contributions": [["Zulip/zulip", "pr"],
\* ["Zulip/zulip-mobile", "issue"]], "gsoc_goals": "web security"}
StudentNoSkills ==
    [student_id |-> "student4",
     available_hours_weekly |-> 0,
     skills |-> <<>>,
     target_orgs |-> <<[org_name |-> <<"z", "u", "l", "i", "p">>]>>,
     contributions |-> <<[repo_name |-> <<"Z", "u", "l", "i", "p", "/", "z", "u", "l", "i", "p">>,
                          contribution_type |-> <<"p", "r">>],
                         [repo_name |-> <<"Z", "u", "l", "i", "p", "/", "z", "u", "l", "i", "p", "-", "m", "o", "b", "i", "l", "e">>,
                          contribution_type |-> <<"i", "s", "s", "u", "e">>]>>,
     gsoc_goals |-> <<"w", "e", "b", " ", "s", "e", "c", "u", "r", "i", "t", "y">>]

\* {"student_id": "student5", "available_hours_weekly": 60, "skills":
\* [["Python", "language", "advanced"], ["Django", "framework",
\* "advanced"]], "target_orgs": [["Zulip", 1]], "contributions":
\* [["Zulip/zulip", "pr"], ["Zulip/zulip", "pr"]], "gsoc_goals": "I want to
\* learn API design"}
StudentExpert ==
    [student_id |-> "student5",
     available_hours_weekly |-> 60,
     skills |-> <<[skill_name |-> <<"P", "y", "t", "h", "o", "n">>,
                   skill_type |-> <<"l", "a", "n", "g", "u", "a", "g", "e">>,
                   proficiency |-> <<"a", "d", "v", "a", "n", "c", "e", "d">>],
                  [skill_name |-> <<"D", "j", "a", "n", "g", "o">>,
                   skill_type |-> <<"f", "r", "a", "m", "e", "w", "o", "r", "k">>,
                   proficiency |-> <<"a", "d", "v", "a", "n", "c", "e", "d">>]>>,
     target_orgs |-> <<[org_name |-> <<"Z", "u", "l", "i", "p">>,
                        priority |-> 1]>>,
     contributions |-> <<[repo_name |-> <<"Z", "u", "l", "i", "p", "/", "z", "u", "l", "i", "p">>,
                          contribution_type |-> <<"p", "r">>],
                         [repo_name |-> <<"Z", "u", "l", "i", "p", "/", "z", "u", "l", "i", "p">>,
                          contribution_type |-> <<"p", "r">>]>>,
     gsoc_goals |-> <<"I", " ", "w", "a", "n", "t", " ", "t", "o", " ", "l", "e", "a", "r", "n", " ", "A", "P", "I", " ", "d", "e", "s", "i", "g", "n">>]

\* {"available_hours_weekly": 30, "skills": [["TypeScript", "language"]],
\* "target_orgs": [["Mozilla", 3]]}
StudentNoId ==
    [available_hours_weekly |-> 30,
     skills |-> <<[skill_name |-> <<"T", "y", "p", "e", "S", "c", "r", "i", "p", "t">>,
                   skill_type |-> <<"l", "a", "n", "g", "u", "a", "g", "e">>]>>,
     target_orgs |-> <<[org_name |-> <<"M", "o", "z", "i", "l", "l", "a">>,
                        priority |-> 3]>>]

\* the records of the store, by name
Students ==
    [Student1 |-> Student1,
     Student2 |-> Student2,
     StudentBare |-> StudentBare,
     StudentNoSkills |-> StudentNoSkills,
     StudentExpert |-> StudentExpert,
     StudentNoId |-> StudentNoId]

\* {"issue_id": "issue1", "org_name": "Zulip", "primary_language":
\* "Python", "required_skills": ["Python", "Django", "API"],
\* "difficulty_score": 5, "estimated_time_hours": 8, "labels":
\* ["enhancement", "backend", "good first issue"], "comments_count": 1}
Issue1 ==
    [issue_id |-> "issue1",
     org_name |-> <<"Z", "u", "l", "i", "p">>,
     primary_language |-> <<"P", "y", "t", "h", "o", "n">>,
     required_skills |-> <<<<"P", "y", "t", "h", "o", "n">>, <<"D", "j", "a", "n", "g", "o">>, <<"A", "P", "I">>>>,
     difficulty_score |-> 5,
     estimated_time_hours |-> 8,
     labels |-> <<<<"e", "n", "h", "a", "n", "c", "e", "m", "e", "n", "t">>, <<"b", "a", "c", "k", "e", "n", "d">>, <<"g", "o", "o", "d", " ", "f", "i", "r", "s", "t", " ", "i", "s", "s", "u", "e">>>>,
     comments_count |-> 1]

\* {"issue_id": "issue2", "org_name": "Mozilla", "primary_language": "C++",
\* "required_skills": ["C++", "CSS", "Browser Internals"],
\* "difficulty_score": 7, "estimated_time_hours": 15, "labels": ["bug",
\* "frontend", "rendering"], "comments_count": 5}
Issue2 ==
    [issue_id |-> "issue2",
     org_name |-> <<"M", "o", "z", "i", "l", "l", "a">>,
     primary_language |-> <<"C", "+", "+">>,
     required_skills |-> <<<<"C", "+", "+">>, <<"C", "S", "S">>, <<"B", "r", "o", "w", "s", "e", "r", " ", "I", "n", "t", "e", "r", "n", "a", "l", "s">>>>,
     difficulty_score |-> 7,
     estimated_time_hours |-> 15,
     labels |-> <<<<"b", "u", "g">>, <<"f", "r", "o", "n", "t", "e", "n", "d">>, <<"r", "e", "n", "d", "e", "r", "i", "n", "g">>>>,
     comments_count |-> 5]

\* {"issue_id": "issue3"}
IssueBare ==
    [issue_id |-> "issue3"]

\* {"issue_id": "issue4", "org_name": "Mozilla", "primary_language": "CSS",
\* "required_skills": ["CSS", "HTML", "JavaScript"], "difficulty_score": 2,
\* "estimated_time_hours": 3, "labels": ["good first issue", "frontend",
\* "ui", "css"], "comments_count": 0}
Issue4 ==
    [issue_id |-> "issue4",
     org_name |-> <<"M", "o", "z", "i", "l", "l", "a">>,
     primary_language |-> <<"C", "S", "S">>,
     required_skills |-> <<<<"C", "S", "S">>, <<"H", "T", "M", "L">>, <<"J", "a", "v", "a", "S", "c", "r", "i", "p", "t">>>>,
     difficulty_score |-> 2,
     estimated_time_hours |-> 3,
     labels |-> <<<<"g", "o", "o", "d", " ", "f", "i", "r", "s", "t", " ", "i", "s", "s", "u", "e">>, <<"f", "r", "o", "n", "t", "e", "n", "d">>, <<"u", "i">>, <<"c", "s", "s">>>>,
     comments_count |-> 0]

\* {"issue_id": "issue5", "org_name": "Web Platform", "primary_language":
\* "Rust", "required_skills": ["CSS", "HTML"], "difficulty_score": 4,
\* "estimated_time_hours": 6, "labels": ["minor"], "comments_count": 3}
IssueOtherPrimary ==
    [issue_id |-> "issue5",
     org_name |-> <<"W", "e", "b", " ", "P", "l", "a", "t", "f", "o", "r", "m">>,
     primary_language |-> <<"R", "u", "s", "t">>,
     required_skills |-> <<<<"C", "S", "S">>, <<"H", "T", "M", "L">>>>,
     difficulty_score |-> 4,
     estimated_time_hours |-> 6,
     labels |-> <<<<"m", "i", "n", "o", "r">>>>,
     comments_count |-> 3]

\* {"issue_id": "issue6", "org_name": "Zulip", "required_skills":
\* ["Django"], "difficulty_score": 9, "comments_count": 7}
IssueNoPrimary ==
    [issue_id |-> "issue6",
     org_name |-> <<"Z", "u", "l", "i", "p">>,
     required_skills |-> <<<<"D", "j", "a", "n", "g", "o">>>>,
     difficulty_score |-> 9,
     comments_count |-> 7]

\* {"org_name": "zulip", "primary_language": "python", "required_skills":
\* ["Python", "Django"], "estimated_time_hours": 0, "labels":
\* ["Documentation"], "comments_count": 12}
IssueNoId ==
    [org_name |-> <<"z", "u", "l", "i", "p">>,
     primary_language |-> <<"p", "y", "t", "h", "o", "n">>,
     required_skills |-> <<<<"P", "y", "t", "h", "o", "n">>, <<"D", "j", "a", "n", "g", "o">>>>,
     estimated_time_hours |-> 0,
     labels |-> <<<<"D", "o", "c", "u", "m", "e", "n", "t", "a", "t", "i", "o", "n">>>>,
     comments_count |-> 12]

\* Issue1 under another identifier: {"issue_id": "issue1b", "org_name":
\* "Zulip", "primary_language": "Python", "required_skills": ["Python",
\* "Django", "API"], "difficulty_score": 5, "estimated_time_hours": 8,
\* "labels": ["enhancement", "backend", "good first issue"],
\* "comments_count": 1}
Issue1Twin ==
    [issue_id |-> "issue1b",
     org_name |-> <<"Z", "u", "l", "i", "p">>,
     primary_language |-> <<"P", "y", "t", "h", "o", "n">>,
     required_skills |-> <<<<"P", "y", "t", "h", "o", "n">>, <<"D", "j", "a", "n", "g", "o">>, <<"A", "P", "I">>>>,
     difficulty_score |-> 5,
     estimated_time_hours |-> 8,
     labels |-> <<<<"e", "n", "h", "a", "n", "c", "e", "m", "e", "n", "t">>, <<"b", "a", "c", "k", "e", "n", "d">>, <<"g", "o", "o", "d", " ", "f", "i", "r", "s", "t", " ", "i", "s", "s", "u", "e">>>>,
     comments_count |-> 1]

\* the records of the store, by name
Issues ==
    [Issue1 |-> Issue1,
     Issue1Twin |-> Issue1Twin,
     Issue2 |-> Issue2,
     IssueBare |-> IssueBare,
     Issue4 |-> Issue4,
     IssueOtherPrimary |-> IssueOtherPrimary,
     IssueNoPrimary |-> IssueNoPrimary,
     IssueNoId |-> IssueNoId]

(***************************************************************************)
(* The weighted final score.  score * weight is kept as <<hi, lo>>, the    *)
(* number hi + lo / WLimb of 1 / (WCoarse * ScoreScale) points.            *)
(***************************************************************************)
\* score * weight
Weighted(score, weight) ==
    LET lo == score * (weight % WLimb)
    IN  <<score * (weight \div WLimb) + lo \div WLimb, lo % WLimb>>

\* a + b
AddWeighted(a, b) ==
    <<a[1] + b[1] + (a[2] + b[2]) \div WLimb, (a[2] + b[2]) % WLimb>>

\* a < b
LessWeighted(a, b) == a[1] < b[1] \/ (a[1] = b[1] /\ a[2] < b[2])

\* points, a whole number, as a weighted score
WholePoints(points) == <<points * WCoarse * ScoreScale, 0>>

\* the component scores, in the order of the components list
ComponentScores(student, issue) ==
    [skill_alignment |-> CalculateSkillAlignment(student, issue),
     difficulty_fit  |-> CalculateDifficultyFit(student, issue),
     org_fit         |-> CalculateOrgFit(student, issue),
     time_fit        |-> CalculateTimeFit(student, issue),
     strategic_value |-> CalculateStrategicValue(student, issue)]

\* the exception calculate_match_score propagates, "ok" when there is none:
\* the components are computed in the order skill, difficulty, organization
ScoreStatus(student, issue) ==
    IF SkillAlignmentRaises(student, issue) THEN "AttributeError"
    ELSE IF OrgFitRaises(student, issue) THEN "ValueError"
    ELSE "ok"

\* ScoreStatus and ComponentScores of every pair of the stores' records,
\* computed once: they depend on the records only, not on the weights
ComponentTable ==
    [s \in DOMAIN Students, i \in DOMAIN Issues |->
        [status |-> ScoreStatus(Students[s], Issues[i]),
         scores |-> IF ScoreStatus(Students[s], Issues[i]) = "ok"
                    THEN ComponentScores(Students[s], Issues[i])
                    ELSE NoValue]]

\* final_score of calculate_match_score from the scores and the weights read
FinalScore(scores, w) ==
    AddWeighted(AddWeighted(AddWeighted(AddWeighted(
        Weighted(scores.skill_alignment, w.skill_alignment),
        Weighted(scores.difficulty_fit, w.difficulty_fit)),
        Weighted(scores.org_fit, w.org_fit)),
        Weighted(scores.time_fit, w.time_fit)),
        Weighted(scores.strategic_value, w.strategic_value))

\* _get_match_category with >= replaced by >
GetMatchCategoryStrict(score) ==
    IF LessWeighted(WholePoints(90), score) THEN "Perfect Match"
    ELSE IF LessWeighted(WholePoints(75), score) THEN "Strong Match"
    ELSE IF LessWeighted(WholePoints(60), score) THEN "Good Match"
    ELSE IF LessWeighted(WholePoints(40), score) THEN "Potential Match"
    ELSE "Poor Match"

\* _get_match_category
GetMatchCategory(score) ==
    IF ~LessWeighted(score, WholePoints(90)) THEN "Perfect Match"
    ELSE IF ~LessWeighted(score, WholePoints(75)) THEN "Strong Match"
    ELSE IF ~LessWeighted(score, WholePoints(60)) THEN "Good Match"
    ELSE IF ~LessWeighted(score, WholePoints(40)) THEN "Potential Match"
    ELSE "Poor Match"

\* round(final_score, 2), as a number of hundredths of a point
RoundFinal(score) ==
    LET unit == (WCoarse * ScoreScale) \div 100
        n == score[1] \div unit
        num == (score[1] % unit) * WLimb + score[2]
        den == unit * WLimb
    IN  IF 2 * num < den THEN n
        ELSE IF 2 * num > den THEN n + 1
        ELSE IF n % 2 = 0 THEN n ELSE n + 1

\* round(component_score, 2), as a number of hundredths of a point
RoundComponent(score) == RoundHalfEven(score * 100, ScoreScale)

\* a sort of the components on the score alone, the weight left out of the key
SortedComponentsByScore(scores, w) ==
    LET key == <<scores.skill_alignment, scores.difficulty_fit, scores.org_fit,
                 scores.time_fit, scores.strategic_value>>
        before(i) == Cardinality({j \in 1..5 :
                        \/ key[i] < key[j]
                        \/ (key[j] = key[i] /\ j < i)})
        rank == <<before(1), before(2), before(3), before(4), before(5)>>
        at(k) == WeightOrder[CHOOSE i \in 1..5 : rank[i] = k - 1]
    IN  <<at(1), at(2), at(3), at(4), at(5)>>

\* components.sort(key=lambda x: x[1] * x[2], reverse=True): the names in
\* descending order of score * weight, equal keys in the order of the list
SortedComponents(scores, w) ==
    LET key == <<Weighted(scores.skill_alignment, w.skill_alignment),
                 Weighted(scores.difficulty_fit, w.difficulty_fit),
                 Weighted(scores.org_fit, w.org_fit),
                 Weighted(scores.time_fit, w.time_fit),
                 Weighted(scores.strategic_value, w.strategic_value)>>
        \* how many components come before the one at position i of the list
        before(i) == Cardinality({j \in 1..5 :
                        \/ LessWeighted(key[i], key[j])
                        \/ (key[j] = key[i] /\ j < i)})
        rank == <<before(1), before(2), before(3), before(4), before(5)>>
        at(k) == WeightOrder[CHOOSE i \in 1..5 : rank[i] = k - 1]
    IN  <<at(1), at(2), at(3), at(4), at(5)>>

\* the recommendation with >= replaced by >
RecommendationStrict(final_score) ==
    IF LessWeighted(WholePoints(75), final_score) THEN "highly recommended"
    ELSE IF LessWeighted(WholePoints(60), final_score) THEN "good match"
    ELSE IF LessWeighted(WholePoints(40), final_score) THEN "could be a match"
    ELSE "not recommended"

\* the closing recommendation of _generate_explanation
Recommendation(final_score) ==
    IF ~LessWeighted(final_score, WholePoints(75)) THEN "highly recommended"
    ELSE IF ~LessWeighted(final_score, WholePoints(60)) THEN "good match"
    ELSE IF ~LessWeighted(final_score, WholePoints(40)) THEN "could be a match"
    ELSE "not recommended"

\* _generate_explanation: the category of the heading, the order of the
\* component paragraphs and the recommendation; w are the weights it reads
GenerateExplanation(scores, final_score, w) ==
    [category |-> GetMatchCategory(final_score),
     components |-> SortedComponents(scores, w),
     recommendation |-> Recommendation(final_score)]

\* dict.get(key) of an identifier the record may lack
None == "<None>"

\* the dictionary calculate_match_score returns for the records named s and
\* i: wf are the weights read for the final score, we the weights read by
\* _generate_explanation
MatchResult(s, i, scores, wf, we) ==
    LET final_score == FinalScore(scores, wf)
    IN  [student_id |-> Get(Students[s], "student_id", None),
         issue_id |-> Get(Issues[i], "issue_id", None),
         match_score |-> RoundFinal(final_score),
         match_category |-> GetMatchCategory(final_score),
         component_scores |->
            [skill_alignment |-> RoundComponent(scores.skill_alignment),
             difficulty_fit  |-> RoundComponent(scores.difficulty_fit),
             org_fit         |-> RoundComponent(scores.org_fit),
             time_fit        |-> RoundComponent(scores.time_fit),
             strategic_value |-> RoundComponent(scores.strategic_value)],
         explanation |-> GenerateExplanation(scores, final_score, we)]

\* a scorer that keeps one result per student and hands it out again for
\* the next issue of that student
CalculateMatchScoreSticky(s, i) ==
    /\ HasObject
    /\ outcome' = IF /\ outcome.op = "calculate_match_score"
                     /\ outcome.args.student = s
                  THEN [outcome EXCEPT !.args = [student |-> s, issue |-> i]]
                  ELSE Returned("calculate_match_score", [student |-> s, issue |-> i],
                                ComponentTable[s, i].status,
                                MatchResult(s, i, ComponentTable[s, i].scores,
                                            weights, weights))
    /\ UNCHANGED weights

\* calculate_match_score on the records named s and i, run without
\* interruption
CalculateMatchScore(s, i) ==
    /\ HasObject
    /\ outcome' = Returned("calculate_match_score", [student |-> s, issue |-> i],
                           ComponentTable[s, i].status,
                           MatchResult(s, i, ComponentTable[s, i].scores, weights, weights))
    /\ UNCHANGED weights

(***************************************************************************)
(* The ranking drivers                                                     *)
(***************************************************************************)
\* matches.sort(key=lambda x: x['match_score'], reverse=True) keeps the order
\* of equal keys: m goes behind every element whose score is not lower
RECURSIVE InsertByScore(_, _)
InsertByScore(sorted, m) ==
    IF sorted = <<>> THEN <<m>>
    ELSE IF Head(sorted).match_score >= m.match_score
         THEN <<Head(sorted)>> \o InsertByScore(Tail(sorted), m)
         ELSE <<m>> \o sorted

RECURSIVE SortByScore(_)
SortByScore(matches) ==
    IF matches = <<>> THEN <<>>
    ELSE InsertByScore(SortByScore(SubSeq(matches, 1, Len(matches) - 1)),
                       matches[Len(matches)])

\* matches[:limit]
SliceTo(matches, limit) ==
    IF limit >= 0
    THEN SubSeq(matches, 1, Min(limit, Len(matches)))
    ELSE SubSeq(matches, 1, Max(Len(matches) + limit, 0))

\* the exception find_matches propagates: that of the first issue whose
\* scoring raises, "ok" when none does
FirstRaised(status, rest) == IF status = "ok" THEN rest ELSE status

RECURSIVE FindMatchesStatusFrom(_, _, _)
FindMatchesStatusFrom(s, issues, k) ==
    IF k > Len(issues) THEN "ok"
    ELSE FirstRaised(ComponentTable[s, issues[k]].status,
                     FindMatchesStatusFrom(s, issues, k + 1))

FindMatchesStatus(s, issues) == FindMatchesStatusFrom(s, issues, 1)

\* find_matches (when it does not raise) with the weights w
FindMatchesValue(s, issues, limit, w) ==
    SliceTo(SortByScore([k \in 1..Len(issues) |->
                            MatchResult(s, issues[k], ComponentTable[s, issues[k]].scores, w, w)]),
            limit)

\* a find_matches that sorts the caller's list of issues instead of its own
\* list of results
FindMatchesSortingInPlace(s, issues, limit) ==
    /\ HasObject
    /\ LET keyed == [k \in 1..Len(issues) |->
                        [name |-> issues[k],
                         match_score |-> IF ComponentTable[s, issues[k]].status = "ok"
                                         THEN MatchResult(s, issues[k],
                                                          ComponentTable[s, issues[k]].scores,
                                                          weights, weights).match_score
                                         ELSE 0]]
           sorted == SortByScore(keyed)
       IN  outcome' = Returned("find_matches",
                               [student |-> s,
                                issues |-> [k \in 1..Len(issues) |-> sorted[k].name],
                                limit |-> limit],
                               FindMatchesStatus(s, issues),
                               FindMatchesValue(s, issues, limit, weights))
    /\ UNCHANGED weights

\* find_matches, run without interruption
FindMatches(s, issues, limit) ==
    /\ HasObject
    /\ outcome' = Returned("find_matches",
                           [student |-> s, issues |-> issues, limit |-> limit],
                           FindMatchesStatus(s, issues),
                           FindMatchesValue(s, issues, limit, weights))
    /\ UNCHANGED weights

\* "if student_id:" of find_matches_for_all_students
HasStudentId(s) ==
    "student_id" \in DOMAIN Students[s] /\ Students[s].student_id # ""

\* the exception find_matches_for_all_students propagates
RECURSIVE FindAllStatusFrom(_, _, _)
FindAllStatusFrom(students, issues, k) ==
    IF k > Len(students) THEN "ok"
    ELSE FirstRaised(IF HasStudentId(students[k])
                     THEN FindMatchesStatus(students[k], issues)
                     ELSE "ok",
                     FindAllStatusFrom(students, issues, k + 1))

FindAllStatus(students, issues) == FindAllStatusFrom(students, issues, 1)

\* all_matches after the first n students: a later student with the same
\* identifier replaces the entry of an earlier one
RECURSIVE AllMatches(_, _, _, _, _)
AllMatches(students, issues, matches_per_student, w, n) ==
    IF n = 0 THEN <<>>
    ELSE LET before == AllMatches(students, issues, matches_per_student, w, n - 1)
         IN  IF HasStudentId(students[n])
             THEN (Students[students[n]].student_id
                       :> FindMatchesValue(students[n], issues, matches_per_student, w))
                  @@ before
             ELSE before

\* find_matches_for_all_students, run without interruption
FindMatchesForAllStudents(students, issues, matches_per_student) ==
    /\ HasObject
    /\ outcome' = Returned("find_matches_for_all_students",
                           [students |-> students, issues |-> issues,
                            matches_per_student |-> matches_per_student],
                           FindAllStatus(students, issues),
                           AllMatches(students, issues, matches_per_student,
                                      weights, Len(students)))
    /\ UNCHANGED weights

(***************************************************************************)
(* Inputs of the configuration operations                                  *)
(***************************************************************************)
\* weight vectors handed to the constructor: the default, other vectors that
\* sum to 1.0, vectors off by more than the tolerance, vectors at the edge
\* of the tolerance (some 1e-5 above and below 1.0), and vectors that sum
\* to 1.0 with a negative weight or a weight above 1
CtorWeights ==
    { DefaultWeights,
      MkWeights(Frac(5000), Frac(5000), 0, 0, 0),
      MkWeights(Frac(2000), Frac(2000), Frac(2000), Frac(2000), Frac(2000)),
      MkWeights(Frac(10000), 0, 0, 0, 0),
      MkWeights(0, 0, 0, 0, Frac(10000)),
      MkWeights(Frac(2495), 0, 0, Frac(7505), 0),
      MkWeights(0, 0, 0, 0, 0),
      MkWeights(Frac(5000), Frac(5000), Frac(1000), 0, 0),
      MkWeights(Frac(3000), Frac(2000), Frac(1500), Frac(1500), Frac(1500)),
      MkWeights(Frac(3500) + 9999, Frac(2000), Frac(1500), Frac(1500), Frac(1500)),
      MkWeights(Frac(3500) + 10000, Frac(2000), Frac(1500), Frac(1500), Frac(1500)),
      MkWeights(Frac(3500) + 10001, Frac(2000), Frac(1500), Frac(1500), Frac(1500)),
      MkWeights(Frac(3500) - 9999, Frac(2000), Frac(1500), Frac(1500), Frac(1500)),
      MkWeights(Frac(3500) - 10000, Frac(2000), Frac(1500), Frac(1500), Frac(1500)),
      MkWeights(Frac(10500), 0 - Frac(500), 0, 0, 0),
      MkWeights(0 - Frac(5000), Frac(15000), 0, 0, 0),
      MkWeights(Frac(12000), 0, 0, 0, 0 - Frac(2000)),
      MkWeights(Frac(6667), 0, Frac(3333), 0, 0) }

PhaseNames == KnownPhases \cup {"final", "Early", ""}

GoalNames == KnownGoals \cup {"fun", "Selection", ""}

(***************************************************************************)
(* The configuration life cycle: construction and presets                  *)
(***************************************************************************)
Init ==
    /\ weights = NoObject
    /\ outcome = Outcome("none", NoValue, "ok", NoValue)
    /\ NoThreads
    /\ earlier = NoCall
    /\ run = NoRun
    /\ store = NoStore

Construct ==
    /\ \E w \in CtorWeights : InitObject(w)
    /\ UNCHANGED <<scoring, preset, earlier, run, store>>

PresetPhase ==
    /\ \E phase \in PhaseNames : AdjustWeightsForGsocPhase(phase)
    /\ UNCHANGED <<scoring, preset, earlier, run, store>>

PresetGoal ==
    /\ \E goal \in GoalNames : AdjustWeightsForStudentGoals(goal)
    /\ UNCHANGED <<scoring, preset, earlier, run, store>>

NextConfig == Construct \/ PresetPhase \/ PresetGoal

SpecConfig == Init /\ [][NextConfig]_vars

(***************************************************************************)
(* One caller using the object: configuration calls and scoring calls, one *)
(* after the other                                                         *)
(***************************************************************************)
Score ==
    /\ \E s \in DOMAIN Students, i \in DOMAIN Issues : CalculateMatchScore(s, i)
    /\ UNCHANGED <<scoring, preset, earlier, run, store>>

Next == Construct \/ PresetPhase \/ PresetGoal \/ Score

Spec == Init /\ [][Next]_vars

(***************************************************************************)
(* The ranking drivers as functions of their arguments: the state starts   *)
(* with a configured object and a call about to be made, and the call is   *)
(* made.                                                                   *)
(***************************************************************************)
MaxItems == 2

MaxStudents == 2

MaxLimit == 3

\* the lists of at most n elements of S
Lists(S, n) == UNION {[1..k -> S] : k \in 0..n}

RankStudents == {"Student1", "StudentNoSkills", "StudentNoId"}

RankIssues == {"Issue1", "Issue1Twin", "Issue4", "IssueNoId", "IssueOtherPrimary"}

RankWeights == {DefaultWeights, GoalTable("portfolio")}

FindMatchesCalls ==
    {[student |-> s, issues |-> l, limit |-> k] :
        s \in RankStudents, l \in Lists(RankIssues, MaxItems), k \in (0 - 1)..MaxLimit}

FindAllCalls ==
    {[students |-> sl, issues |-> l, matches_per_student |-> k] :
        sl \in Lists(RankStudents, MaxStudents), l \in Lists(RankIssues, MaxItems),
        k \in 0..MaxLimit}

InitRank ==
    /\ weights \in RankWeights
    /\ outcome \in {Outcome("find_matches", c, "pending", NoValue) : c \in FindMatchesCalls}
                \cup {Outcome("find_matches_for_all_students", c, "pending", NoValue) :
                        c \in FindAllCalls}
    /\ NoThreads
    /\ earlier = NoCall
    /\ run = NoRun
    /\ store = NoStore

RankOne ==
    /\ outcome.status = "pending"
    /\ outcome.op = "find_matches"
    /\ FindMatches(outcome.args.student, outcome.args.issues, outcome.args.limit)
    /\ UNCHANGED <<scoring, preset, earlier, run, store>>

RankAll ==
    /\ outcome.status = "pending"
    /\ outcome.op = "find_matches_for_all_students"
    /\ FindMatchesForAllStudents(outcome.args.students, outcome.args.issues,
                                 outcome.args.matches_per_student)
    /\ UNCHANGED <<scoring, preset, earlier, run, store>>

NextRank == RankOne \/ RankAll

SpecRank == InitRank /\ [][NextRank]_vars

(***************************************************************************)
(* Every operation of a configured object as a call about to be made: the  *)
(* arguments are in the state before the call and after it.                *)
(***************************************************************************)
ScoreCalls == {[student |-> s, issue |-> i] : s \in RankStudents, i \in RankIssues}

InitCalls ==
    /\ weights \in RankWeights
    /\ outcome \in {Outcome("find_matches", c, "pending", NoValue) : c \in FindMatchesCalls}
                \cup {Outcome("find_matches_for_all_students", c, "pending", NoValue) :
                        c \in FindAllCalls}
                \cup {Outcome("calculate_match_score", c, "pending", NoValue) :
                        c \in ScoreCalls}
                \cup {Outcome("adjust_weights_for_gsoc_phase", phase, "pending", NoValue) :
                        phase \in PhaseNames}
                \cup {Outcome("adjust_weights_for_student_goals", goal, "pending", NoValue) :
                        goal \in GoalNames}
    /\ NoThreads
    /\ earlier = NoCall
    /\ run = NoRun
    /\ store = NoStore

ScoreCall ==
    /\ outcome.status = "pending"
    /\ outcome.op = "calculate_match_score"
    /\ CalculateMatchScore(outcome.args.student, outcome.args.issue)
    /\ UNCHANGED <<scoring, preset, earlier, run, store>>

PhaseCall ==
    /\ outcome.status = "pending"
    /\ outcome.op = "adjust_weights_for_gsoc_phase"
    /\ AdjustWeightsForGsocPhase(outcome.args)
    /\ UNCHANGED <<scoring, preset, earlier, run, store>>

GoalCall ==
    /\ outcome.status = "pending"
    /\ outcome.op = "adjust_weights_for_student_goals"
    /\ AdjustWeightsForStudentGoals(outcome.args)
    /\ UNCHANGED <<scoring, preset, earlier, run, store>>

NextCalls == RankOne \/ RankAll \/ ScoreCall \/ PhaseCall \/ GoalCall

SpecCalls == InitCalls /\ [][NextCalls]_vars

(***************************************************************************)
(* _get_match_category as a function of the final score: the state starts  *)
(* with a score about to be categorised, and it is categorised.            *)
(***************************************************************************)
\* the smallest step of a weighted score below and above each whole point
CategoryOffsets == {<<0 - 1, WLimb - 1>>, <<0, 0>>, <<0, 1>>}

\* final scores: every whole point from 5 below 0 to 5 above 100, and the
\* numbers next to each of them
CategoryScores ==
    {AddWeighted(WholePoints(p), d) : p \in (0 - 5)..105, d \in CategoryOffsets}

InitCategory ==
    /\ weights = DefaultWeights
    /\ outcome \in {Outcome("_get_match_category", score, "pending", NoValue) :
                        score \in CategoryScores}
    /\ NoThreads
    /\ earlier = NoCall
    /\ run = NoRun
    /\ store = NoStore

Categorise ==
    /\ outcome.status = "pending"
    /\ outcome.op = "_get_match_category"
    /\ outcome' = Outcome("_get_match_category", outcome.args, "ok",
                          GetMatchCategory(outcome.args))
    /\ UNCHANGED <<weights, scoring, preset, earlier, run, store>>

NextCategory == Categorise

SpecCategory == InitCategory /\ [][NextCategory]_vars

(***************************************************************************)
(* Scoring calls one after the other on one object, with preset calls in   *)
(* between; any one of the scoring calls made so far may be the one        *)
(* remembered in earlier, together with the weights it ran under.          *)
(***************************************************************************)
RepeatStudents == {"Student1", "StudentExpert", "StudentBare"}

RepeatIssues == {"Issue1", "Issue2", "IssueOtherPrimary"}

InitRepeat ==
    /\ weights = DefaultWeights
    /\ outcome = Outcome("__init__", DefaultWeights, "ok", NoValue)
    /\ NoThreads
    /\ earlier = NoCall
    /\ run = NoRun
    /\ store = NoStore

RepeatScore ==
    /\ \E s \in RepeatStudents, i \in RepeatIssues : CalculateMatchScore(s, i)
    /\ earlier' \in {earlier,
                     [op |-> outcome'.op, args |-> outcome'.args,
                      status |-> outcome'.status, value |-> outcome'.value,
                      weights |-> weights]}
    /\ UNCHANGED <<scoring, preset, run, store>>

NextRepeat == RepeatScore \/ PresetPhase \/ PresetGoal

SpecRepeat == InitRepeat /\ [][NextRepeat]_vars

(***************************************************************************)
(* Two threads on one object: one inside calculate_match_score, one inside *)
(* a preset call.  Neither method takes a lock or copies the weights, so   *)
(* every read and every assignment of a weight_* attribute is a step the   *)
(* other thread can run between.                                           *)
(***************************************************************************)
MaxPresetCalls == 2

ConcStudents == {"Student1", "StudentExpert"}

ConcIssues == {"Issue1", "IssueOtherPrimary"}

ConcPhases == {"early", "late", "final"}

ConcGoals == {"portfolio", "fun"}

InitConc ==
    /\ weights = DefaultWeights
    /\ outcome = Outcome("__init__", DefaultWeights, "ok", NoValue)
    /\ NoThreads
    /\ earlier = NoCall
    /\ run = NoRun
    /\ store = NoStore

\* the weights a thread has read so far, as a record once all five are read
ReadWeights(read) == MkWeights(read[1], read[2], read[3], read[4], read[5])

\* calculate_match_score up to the first read of a weight: the five
\* component scores are computed, which reads no weight and may raise
BeginScore ==
    /\ scoring.pc \in {"idle", "returned"}
    /\ \E s \in ConcStudents, i \in ConcIssues :
         IF ComponentTable[s, i].status # "ok"
         THEN /\ outcome' = Outcome("calculate_match_score", [student |-> s, issue |-> i],
                                    ComponentTable[s, i].status, NoValue)
              /\ scoring' = Idle
         ELSE /\ scoring' = [pc |-> "final_score", student |-> s, issue |-> i,
                             start |-> weights, final |-> <<>>, explanation |-> <<>>]
              /\ UNCHANGED outcome
    /\ UNCHANGED <<weights, preset, earlier, run, store>>

\* the next self.weight_* read of the final_score sum
ReadFinalWeight ==
    /\ scoring.pc = "final_score"
    /\ LET read == Append(scoring.final, weights[WeightOrder[Len(scoring.final) + 1]])
       IN  scoring' = [scoring EXCEPT !.final = read,
                                      !.pc = IF Len(read) = 5 THEN "explanation"
                                             ELSE "final_score"]
    /\ UNCHANGED <<weights, outcome, preset, earlier, run, store>>

\* the next self.weight_* read of the components list of _generate_explanation
ReadExplanationWeight ==
    /\ scoring.pc = "explanation"
    /\ Len(scoring.explanation) < 5
    /\ scoring' = [scoring EXCEPT !.explanation =
                      Append(@, weights[WeightOrder[Len(scoring.explanation) + 1]])]
    /\ UNCHANGED <<weights, outcome, preset, earlier, run, store>>

\* the rest of the call: the result is built from the weights that were read
ReturnScore ==
    /\ scoring.pc = "explanation"
    /\ Len(scoring.explanation) = 5
    /\ outcome' = Outcome("calculate_match_score",
                          [student |-> scoring.student, issue |-> scoring.issue], "ok",
                          MatchResult(scoring.student, scoring.issue,
                                      ComponentTable[scoring.student, scoring.issue].scores,
                                      ReadWeights(scoring.final),
                                      ReadWeights(scoring.explanation)))
    /\ scoring' = [scoring EXCEPT !.pc = "returned"]
    /\ UNCHANGED <<weights, preset, earlier, run, store>>

\* a preset call up to its first assignment: an unknown name raises
BeginPreset ==
    /\ preset.pc = "idle"
    /\ preset.calls < MaxPresetCalls
    /\ \/ \E phase \in ConcPhases :
            IF phase \in KnownPhases
            THEN /\ preset' = [pc |-> "assigning", op |-> "adjust_weights_for_gsoc_phase",
                               name |-> phase, table |-> PhaseTable(phase), n |-> 0,
                               calls |-> preset.calls + 1]
                 /\ UNCHANGED outcome
            ELSE /\ outcome' = Outcome("adjust_weights_for_gsoc_phase", phase,
                                       "ValueError", NoValue)
                 /\ preset' = [pc |-> "idle", calls |-> preset.calls + 1]
       \/ \E goal \in ConcGoals :
            IF goal \in KnownGoals
            THEN /\ preset' = [pc |-> "assigning", op |-> "adjust_weights_for_student_goals",
                               name |-> goal, table |-> GoalTable(goal), n |-> 0,
                               calls |-> preset.calls + 1]
                 /\ UNCHANGED outcome
            ELSE /\ outcome' = Outcome("adjust_weights_for_student_goals", goal,
                                       "ValueError", NoValue)
                 /\ preset' = [pc |-> "idle", calls |-> preset.calls + 1]
    /\ UNCHANGED <<weights, scoring, earlier, run, store>>

\* the next self.weight_* = ... of the preset call
AssignWeight ==
    /\ preset.pc = "assigning"
    /\ preset.n < 5
    /\ weights' = [weights EXCEPT ![WeightOrder[preset.n + 1]] =
                                        preset.table[WeightOrder[preset.n + 1]]]
    /\ preset' = [preset EXCEPT !.n = @ + 1]
    /\ UNCHANGED <<outcome, scoring, earlier, run, store>>

\* the preset call returns
ReturnPreset ==
    /\ preset.pc = "assigning"
    /\ preset.n = 5
    /\ outcome' = Outcome(preset.op, preset.name, "ok", NoValue)
    /\ preset' = [pc |-> "idle", calls |-> preset.calls]
    /\ UNCHANGED <<weights, scoring, earlier, run, store>>

NextConc ==
    \/ BeginScore \/ ReadFinalWeight \/ ReadExplanationWeight \/ ReturnScore
    \/ BeginPreset \/ AssignWeight \/ ReturnPreset

SpecConc == InitConc /\ [][NextConc]_vars

(***************************************************************************)
(* The private methods of the scorer, each as a call about to be made on   *)
(* a profile and an item drawn from small pools.                           *)
(***************************************************************************)
\* the largest number of skills of a profile, and of its target organizations
MaxSkills == 2

MaxTargets == 2

\* lists without a repeated element
DistinctLists(S, n) ==
    {l \in Lists(S, n) : \A a, b \in 1..Len(l) : a # b => l[a] # l[b]}

\* skills: (name, type, proficiency); the seventh has no proficiency
PartSkills ==
    {[skill_name |-> <<"P", "y", "t", "h", "o", "n">>, skill_type |-> <<"l", "a", "n", "g", "u", "a", "g", "e">>, proficiency |-> <<"a", "d", "v", "a", "n", "c", "e", "d">>],
     [skill_name |-> <<"C", "y", "t", "h", "o", "n">>, skill_type |-> <<"l", "a", "n", "g", "u", "a", "g", "e">>, proficiency |-> <<"i", "n", "t", "e", "r", "m", "e", "d", "i", "a", "t", "e">>],
     [skill_name |-> <<"T", "y", "p", "e", "S", "c", "r", "i", "p", "t">>, skill_type |-> <<"l", "a", "n", "g", "u", "a", "g", "e">>, proficiency |-> <<"a", "d", "v", "a", "n", "c", "e", "d">>],
     [skill_name |-> <<"J", "a", "v", "a", "S", "c", "r", "i", "p", "t">>, skill_type |-> <<"l", "a", "n", "g", "u", "a", "g", "e">>, proficiency |-> <<"b", "e", "g", "i", "n", "n", "e", "r">>],
     [skill_name |-> <<"D", "j", "a", "n", "g", "o">>, skill_type |-> <<"f", "r", "a", "m", "e", "w", "o", "r", "k">>, proficiency |-> <<"b", "e", "g", "i", "n", "n", "e", "r">>],
     [skill_name |-> <<"F", "l", "a", "s", "k">>, skill_type |-> <<"f", "r", "a", "m", "e", "w", "o", "r", "k">>, proficiency |-> <<"a", "d", "v", "a", "n", "c", "e", "d">>],
     [skill_name |-> <<"P", "y", "r", "a", "m", "i", "d">>, skill_type |-> <<"f", "r", "a", "m", "e", "w", "o", "r", "k">>],
     [skill_name |-> <<"R", "u", "s", "t">>, skill_type |-> <<"t", "o", "o", "l">>, proficiency |-> <<"i", "n", "t", "e", "r", "m", "e", "d", "i", "a", "t", "e">>]}

PartGoals ==
    {<<"l", "e", "a", "r", "n", " ", "d", "j", "a", "n", "g", "o", " ", "a", "n", "d", " ", "A", "P", "I", "s">>,
     <<"w", "a", "n", "t", " ", "t", "o", " ", "l", "e", "a", "r", "n", " ", "w", "i", "t", "h", " ", "t", "h", "e", " ", "w", "e", "b">>,
     <<"m", "a", "s", "t", "e", "r", " ", "t", "y", "p", "e", "s", "c", "r", "i", "p", "t">>}

\* profiles with a list of skills, without and with a goal statement
PartProfiles ==
    {[student_id |-> "part"]}
        \cup {[student_id |-> "part", skills |-> l] : l \in DistinctLists(PartSkills, MaxSkills)}

PartProfilesWithGoals ==
    PartProfiles
        \cup {[student_id |-> "part", skills |-> l, gsoc_goals |-> g] :
                l \in DistinctLists(PartSkills, MaxSkills), g \in PartGoals}

\* items: (identifier, primary language, required skills)
PartIssues ==
    {[issue_id |-> "part1", primary_language |-> <<"P", "y", "t", "h", "o", "n">>, required_skills |-> <<<<"P", "y", "t", "h", "o", "n">>, <<"D", "j", "a", "n", "g", "o">>, <<"A", "P", "I">>>>],
     [issue_id |-> "part2", primary_language |-> <<"t", "y", "p", "e", "s", "c", "r", "i", "p", "t">>, required_skills |-> <<<<"T", "y", "p", "e", "S", "c", "r", "i", "p", "t">>>>],
     [issue_id |-> "part3", primary_language |-> <<"P", "y", "t", "h", "o", "n">>, required_skills |-> <<<<"D", "j", "a", "n", "g", "o">>>>],
     [issue_id |-> "part4", primary_language |-> <<"P", "y", "t", "h", "o", "n">>, required_skills |-> <<>>],
     [issue_id |-> "part5", primary_language |-> <<"R", "u", "s", "t">>, required_skills |-> <<<<"R", "u", "s", "t">>, <<"F", "l", "a", "s", "k">>>>],
     [issue_id |-> "part6"],
     [issue_id |-> "part7", primary_language |-> <<"P", "y", "t", "h", "o", "n">>, required_skills |-> <<<<"P", "y", "t", "h", "o", "n">>, <<"M", "a", "c", "h", "i", "n", "e", " ", "L", "e", "a", "r", "n", "i", "n", "g">>>>]}

\* the 1..10 scale of difficulty_score
Difficulties == 1..10

PartRequired ==
    {<<>>,
     <<<<"P", "y", "t", "h", "o", "n">>, <<"D", "j", "a", "n", "g", "o">>>>}

\* items without and with a difficulty
DifficultyIssues ==
    {[issue_id |-> "part", required_skills |-> r] : r \in PartRequired}
        \cup {[issue_id |-> "part", required_skills |-> r, difficulty_score |-> d] :
                r \in PartRequired, d \in Difficulties}

HourValues == {0, 5, 9, 10, 12, 20, 30, 45, 60}

TimeValues == {0, 3, 5, 8, 10, 15}

\* profiles without and with available_hours_weekly
TimeStudents ==
    {[student_id |-> "part"]}
        \cup {[student_id |-> "part", available_hours_weekly |-> h] : h \in HourValues}

\* items without and with estimated_time_hours
TimeIssues ==
    {[issue_id |-> "part"]}
        \cup {[issue_id |-> "part", estimated_time_hours |-> t] : t \in TimeValues}

\* target organizations: (name, priority); the fourth has no priority
PartTargets ==
    {[org_name |-> <<"Z", "u", "l", "i", "p">>, priority |-> 1],
     [org_name |-> <<"Z", "U", "L", "I", "P">>, priority |-> 2],
     [org_name |-> <<"z", "u", "l", "i", "p">>, priority |-> 3],
     [org_name |-> <<"z", "u", "l", "i", "p">>],
     [org_name |-> <<"Z", "u", "l", "i", "p">>, priority |-> 5],
     [org_name |-> <<"M", "o", "z", "i", "l", "l", "a">>, priority |-> 1]}

\* lists of target organizations with different names
TargetLists ==
    {l \in DistinctLists(PartTargets, MaxTargets) :
        \A a, b \in 1..Len(l) : a # b => Lower(l[a].org_name) # Lower(l[b].org_name)}

\* the largest number of past contributions of a profile
MaxContributions == 2

OrgGoals ==
    {<<"w", "e", "b", " ", "s", "e", "c", "u", "r", "i", "t", "y">>}

\* contributions: (repository, kind)
PartContributions ==
    {[repo_name |-> <<"Z", "u", "l", "i", "p", "/", "z", "u", "l", "i", "p">>, contribution_type |-> <<"p", "r">>],
     [repo_name |-> <<"z", "u", "l", "i", "p", "/", "z", "u", "l", "i", "p", "-", "m", "o", "b", "i", "l", "e">>, contribution_type |-> <<"p", "r">>],
     [repo_name |-> <<"Z", "u", "l", "i", "p", "/", "z", "u", "l", "i", "p", "-", "t", "e", "r", "m", "i", "n", "a", "l">>, contribution_type |-> <<"i", "s", "s", "u", "e">>],
     [repo_name |-> <<"M", "o", "z", "i", "l", "l", "a", "/", "g", "e", "c", "k", "o">>, contribution_type |-> <<"p", "r">>]}

\* profiles with target organizations, without and with a skill, a goal
\* statement, and past contributions
OrgStudents ==
    {[student_id |-> "part", target_orgs |-> l] : l \in TargetLists}
        \cup {[student_id |-> "part", target_orgs |-> l, skills |-> sk] :
                l \in TargetLists, sk \in DistinctLists(PartSkills, 1) \ {<<>>}}
        \cup {[student_id |-> "part", target_orgs |-> l, gsoc_goals |-> g] :
                l \in TargetLists, g \in OrgGoals}
        \cup {[student_id |-> "part", target_orgs |-> l, gsoc_goals |-> g, skills |-> sk] :
                l \in TargetLists, g \in OrgGoals,
                sk \in DistinctLists(PartSkills, 1) \ {<<>>}}
        \cup {[student_id |-> "part", target_orgs |-> l, contributions |-> c] :
                l \in DistinctLists(PartTargets, 1),
                c \in DistinctLists(PartContributions, MaxContributions) \ {<<>>}}

\* items without and with an organization, a description, required skills
OrgIssues ==
    {[issue_id |-> "part"]}
        \cup {[issue_id |-> "part", org_name |-> o] :
                o \in {<<"Z", "u", "l", "i", "p">>, <<"z", "u", "l", "i", "p">>, <<"M", "o", "z", "i", "l", "l", "a">>}}
        \cup {[issue_id |-> "part", org_name |-> <<"M", "o", "z", "i", "l", "l", "a">>, org_description |-> <<"w", "e", "b", " ", "b", "r", "o", "w", "s", "e", "r">>],
              [issue_id |-> "part", org_name |-> <<"Z", "u", "l", "i", "p">>, required_skills |-> <<<<"C", "S", "S">>>>]}

\* the largest number of labels of an item
MaxLabels == 2

PartLabels ==
    {<<"e", "n", "h", "a", "n", "c", "e", "m", "e", "n", "t">>,
     <<"I", "m", "p", "r", "o", "v", "e", "m", "e", "n", "t">>,
     <<"m", "i", "n", "o", "r">>,
     <<"b", "u", "g">>,
     <<"d", "o", "c", "u", "m", "e", "n", "t", "a", "t", "i", "o", "n">>,
     <<"g", "o", "o", "d", " ", "f", "i", "r", "s", "t", " ", "i", "s", "s", "u", "e">>,
     <<"C", "o", "r", "e">>}

CommentCounts == {0, 1, 2, 3, 5, 6, 10, 11}

\* items without and with labels, without and with a comment count
StrategicIssues ==
    {[issue_id |-> "part"]}
        \cup {[issue_id |-> "part", labels |-> l] : l \in DistinctLists(PartLabels, MaxLabels)}
        \cup {[issue_id |-> "part", comments_count |-> n] : n \in CommentCounts}
        \cup {[issue_id |-> "part", labels |-> l, comments_count |-> n] :
                l \in DistinctLists(PartLabels, MaxLabels), n \in CommentCounts}

PartCalls ==
    {Outcome("_calculate_skill_alignment", [student |-> s, issue |-> i], "pending", NoValue) :
        s \in PartProfiles, i \in PartIssues}
    \cup {Outcome("_estimate_student_skill_level", [student |-> s], "pending", NoValue) :
        s \in PartProfiles}
    \cup {Outcome("_calculate_learning_opportunity", [student |-> s, issue |-> i],
                  "pending", NoValue) :
        s \in PartProfilesWithGoals, i \in PartIssues}
    \cup {Outcome("_calculate_difficulty_fit", [student |-> s, issue |-> i],
                  "pending", NoValue) :
        s \in PartProfiles, i \in DifficultyIssues}
    \cup {Outcome("_calculate_org_fit", [student |-> s, issue |-> i], "pending", NoValue) :
        s \in OrgStudents, i \in OrgIssues}
    \cup {Outcome("_calculate_time_fit", [student |-> s, issue |-> i], "pending", NoValue) :
        s \in TimeStudents, i \in TimeIssues}
    \cup {Outcome("_calculate_strategic_value", [student |-> s, issue |-> i],
                  "pending", NoValue) :
        s \in {[student_id |-> "part"]}, i \in StrategicIssues}

InitParts ==
    /\ weights = DefaultWeights
    /\ outcome \in PartCalls
    /\ NoThreads
    /\ earlier = NoCall
    /\ run = NoRun
    /\ store = NoStore

\* the locals and the result of _calculate_skill_alignment at its return;
\* the first return leaves before the two partial scores exist
SkillAlignmentValue(student, issue) ==
    IF RequiredSkills(issue) = <<>>
    THEN [skill_alignment_score |-> CalculateSkillAlignment(student, issue)]
    ELSE [primary_language_score |-> PrimaryLanguageScore(student, issue),
          framework_score |->
              (SumSeq(FrameworkScores(student, issue)) * ScoreScale)
                  \div Max(Len(FrameworkScores(student, issue)), 1),
          skill_alignment_score |-> CalculateSkillAlignment(student, issue)]

SkillAlignmentCall ==
    /\ outcome.status = "pending"
    /\ outcome.op = "_calculate_skill_alignment"
    /\ outcome' =
         IF SkillAlignmentRaises(outcome.args.student, outcome.args.issue)
         THEN Outcome(outcome.op, outcome.args, "raised", NoValue)
         ELSE Outcome(outcome.op, outcome.args, "ok",
                      SkillAlignmentValue(outcome.args.student, outcome.args.issue))
    /\ UNCHANGED <<weights, scoring, preset, earlier, run, store>>

SkillLevelCall ==
    /\ outcome.status = "pending"
    /\ outcome.op = "_estimate_student_skill_level"
    /\ outcome' = Outcome(outcome.op, outcome.args, "ok",
                          EstimateStudentSkillLevel(outcome.args.student))
    /\ UNCHANGED <<weights, scoring, preset, earlier, run, store>>

LearningOpportunityCall ==
    /\ outcome.status = "pending"
    /\ outcome.op = "_calculate_learning_opportunity"
    /\ outcome' = Outcome(outcome.op, outcome.args, "ok",
                          CalculateLearningOpportunity(outcome.args.student,
                                                       outcome.args.issue))
    /\ UNCHANGED <<weights, scoring, preset, earlier, run, store>>

DifficultyFitCall ==
    /\ outcome.status = "pending"
    /\ outcome.op = "_calculate_difficulty_fit"
    /\ outcome' = Outcome(outcome.op, outcome.args, "ok",
                          CalculateDifficultyFit(outcome.args.student, outcome.args.issue))
    /\ UNCHANGED <<weights, scoring, preset, earlier, run, store>>

\* the locals and the result of _calculate_org_fit at its return
OrgFitValue(student, issue) ==
    [target_org_score |-> TargetOrgScore(student, issue),
     previous_contributions_score |-> PreviousContributionsScore(student, issue),
     org_fit_score |-> CalculateOrgFit(student, issue)]

OrgFitCall ==
    /\ outcome.status = "pending"
    /\ outcome.op = "_calculate_org_fit"
    /\ outcome' =
         IF OrgFitRaises(outcome.args.student, outcome.args.issue)
         THEN Outcome(outcome.op, outcome.args, "raised", NoValue)
         ELSE Outcome(outcome.op, outcome.args, "ok",
                      OrgFitValue(outcome.args.student, outcome.args.issue))
    /\ UNCHANGED <<weights, scoring, preset, earlier, run, store>>

TimeFitCall ==
    /\ outcome.status = "pending"
    /\ outcome.op = "_calculate_time_fit"
    /\ outcome' = Outcome(outcome.op, outcome.args, "ok",
                          CalculateTimeFit(outcome.args.student, outcome.args.issue))
    /\ UNCHANGED <<weights, scoring, preset, earlier, run, store>>

\* the locals and the result of _calculate_strategic_value at its return
StrategicValueValue(student, issue) ==
    [visibility_score |-> CalculateVisibility(issue),
     mentor_activity_score |-> CalculateMentorActivity(issue),
     competition_level_score |-> CalculateCompetitionLevel(issue),
     strategic_value_score |-> CalculateStrategicValue(student, issue)]

StrategicValueCall ==
    /\ outcome.status = "pending"
    /\ outcome.op = "_calculate_strategic_value"
    /\ outcome' = Outcome(outcome.op, outcome.args, "ok",
                          StrategicValueValue(outcome.args.student, outcome.args.issue))
    /\ UNCHANGED <<weights, scoring, preset, earlier, run, store>>

NextParts ==
    \/ SkillAlignmentCall
    \/ SkillLevelCall
    \/ LearningOpportunityCall
    \/ DifficultyFitCall
    \/ OrgFitCall
    \/ TimeFitCall
    \/ StrategicValueCall

SpecParts == InitParts /\ [][NextParts]_vars

(***************************************************************************)
(* _generate_explanation as a pending call.  The five scores and the final *)
(* score are its arguments; the weights are those of the object.           *)
(***************************************************************************)
\* k * a for a weighted score a and an integer k, as three limbs
\* <<hi, mid, lo>> standing for (hi * WCoarse + mid) + lo / WLimb
Scaled(a, k) ==
    LET lo == a[2] * k
        mid == (a[1] % WCoarse) * k + lo \div WLimb
    IN  <<(a[1] \div WCoarse) * k + mid \div WCoarse, mid % WCoarse, lo % WLimb>>

\* a <= b for two such products
LessEqScaled(a, b) ==
    \/ a[1] < b[1]
    \/ a[1] = b[1] /\ a[2] < b[2]
    \/ a[1] = b[1] /\ a[2] = b[2] /\ a[3] <= b[3]

\* round(contribution / final_score * 100 if final_score > 0 else 0) for a
\* contribution from 0 to final_score: the integers nearest to the quotient.
\* The quotient is a double, and at an exact half the rounding of the
\* division decides between the two neighbours, so both are possible.
Percentages(contribution, final_score) ==
    IF ~LessWeighted(<<0, 0>>, final_score) THEN {0}
    ELSE {p \in 0..100 :
            /\ LessEqScaled(Scaled(final_score, 2 * p - 1), Scaled(contribution, 200))
            /\ LessEqScaled(Scaled(contribution, 200), Scaled(final_score, 2 * p + 1))}

\* the percentages _generate_explanation can print for the five components
ExplanationPercentages(scores, final_score, w) ==
    {[skill_alignment |-> a, difficulty_fit |-> b, org_fit |-> c,
      time_fit |-> d, strategic_value |-> e] :
        a \in Percentages(Weighted(scores.skill_alignment, w.skill_alignment), final_score),
        b \in Percentages(Weighted(scores.difficulty_fit, w.difficulty_fit), final_score),
        c \in Percentages(Weighted(scores.org_fit, w.org_fit), final_score),
        d \in Percentages(Weighted(scores.time_fit, w.time_fit), final_score),
        e \in Percentages(Weighted(scores.strategic_value, w.strategic_value), final_score)}

\* values the five component methods return, as tuples of scores
ExplainScores ==
    {[skill_alignment |-> a * ScoreScale, difficulty_fit |-> b * ScoreScale,
      org_fit |-> c * ScoreScale, time_fit |-> d * ScoreScale,
      strategic_value |-> e * ScoreScale] :
        a \in {0, 50, 100}, b \in {21, 58, 72, 100}, c \in {0, 32, 68, 92},
        d \in {16, 72, 88, 96}, e \in {63, 76, 85}}

\* the weights of the constructor's defaults, of every preset, and of a
\* scorer that counts skill alignment only
ExplainWeights ==
    {DefaultWeights, MkWeights(Frac(10000), 0, 0, 0, 0)}
        \cup {PhaseTable(phase) : phase \in KnownPhases}
        \cup {GoalTable(goal) : goal \in KnownGoals}

\* calculate_match_score's call of _generate_explanation is pending: the
\* final score is the weighted sum of the scores under the object's weights
InitExplain ==
    /\ weights \in ExplainWeights
    /\ outcome \in {Outcome("_generate_explanation",
                            [scores |-> sc, final_score |-> FinalScore(sc, weights)],
                            "pending", NoValue) : sc \in ExplainScores}
    /\ NoThreads
    /\ earlier = NoCall
    /\ run = NoRun
    /\ store = NoStore

\* _generate_explanation: the heading's category, the component paragraphs
\* in their order with their percentages, and the recommendation
GenerateExplanationCall ==
    /\ outcome.status = "pending"
    /\ outcome.op = "_generate_explanation"
    /\ \E pct \in ExplanationPercentages(outcome.args.scores,
                                         outcome.args.final_score, weights) :
          outcome' = Outcome(outcome.op, outcome.args, "ok",
                [category |-> GetMatchCategory(outcome.args.final_score),
                 components |-> SortedComponents(outcome.args.scores, weights),
                 percentages |-> pct,
                 recommendation |-> Recommendation(outcome.args.final_score)])
    /\ UNCHANGED <<weights, scoring, preset, earlier, run, store>>

NextExplain == GenerateExplanationCall

SpecExplain == InitExplain /\ [][NextExplain]_vars

(***************************************************************************)
(* ai_integration: get_ai_response, call_gemini_api and call_groq_api.     *)
(* A step is one pass of a retry loop: one requests.post and what the loop *)
(* body, and the callers up to get_ai_response, do with its outcome.  run  *)
(* holds whether the two module-level keys are set, the loop variable, the *)
(* Groq model in use and the requests sent so far with their outcomes.     *)
(***************************************************************************)
MAX_RETRIES == 3

GROQ_MODEL == "llama-3.1-8b-instant"

GROQ_BACKUP_MODEL == "mixtral-8x7b-32768"

AIError == "AIError"

\* what a request comes to: a response whose JSON holds the text where the
\* extraction looks for it, a response whose JSON lacks a key or an index on
\* that path, or a RequestException out of post, raise_for_status or json
Replies == {"text", "no text", "RequestException"}

\* the calls made, each with its arguments
AICalls ==
    {[op |-> "get_ai_response", args |-> [prompt |-> "prompt"]],
     [op |-> "call_gemini_api", args |-> [prompt |-> "prompt"]],
     [op |-> "call_groq_api", args |-> [prompt |-> "prompt", model |-> GROQ_MODEL]],
     [op |-> "call_groq_api", args |-> [prompt |-> "prompt", model |-> GROQ_BACKUP_MODEL]]}

InitAI ==
    /\ weights = NoObject
    /\ \E call \in AICalls, gemini_key \in BOOLEAN, groq_key \in BOOLEAN :
          /\ outcome = Outcome(call.op, call.args, "pending", NoValue)
          /\ run = [pc |-> "entry", GEMINI_API_KEY |-> gemini_key,
                    GROQ_API_KEY |-> groq_key, attempt |-> 0,
                    model |-> Get(call.args, "model", GROQ_MODEL),
                    sent |-> <<>>, after_loop |-> FALSE]
    /\ NoThreads
    /\ earlier = NoCall /\ store = NoStore

\* the call ends: it returns value (status "ok") or raises status
Ends(r, status, value) ==
    /\ outcome' = Outcome(outcome.op, outcome.args, status, value)
    /\ run' = [r EXCEPT !.pc = "done"]

\* a get_ai_response that turns to Groq first
FirstProviderGroqFirst(gemini_key, groq_key) ==
    IF groq_key THEN "groq" ELSE IF gemini_key THEN "gemini" ELSE "none"

\* the provider get_ai_response turns to first
FirstProvider(gemini_key, groq_key) ==
    IF gemini_key THEN "gemini" ELSE IF groq_key THEN "groq" ELSE "none"

\* the if at the head of call_gemini_api, call_groq_api and get_ai_response
Enter ==
    /\ outcome.status = "pending"
    /\ run.pc = "entry"
    /\ LET first == CASE outcome.op = "get_ai_response" ->
                           FirstProvider(run.GEMINI_API_KEY, run.GROQ_API_KEY)
                      [] outcome.op = "call_gemini_api" ->
                           IF run.GEMINI_API_KEY THEN "gemini" ELSE "none"
                      [] outcome.op = "call_groq_api" ->
                           IF run.GROQ_API_KEY THEN "groq" ELSE "none"
       IN  IF first = "none"
           THEN Ends(run, AIError,
                     CASE outcome.op = "get_ai_response" -> "No AI API keys available"
                       [] outcome.op = "call_gemini_api" ->
                            "Gemini API key not found in environment variables"
                       [] outcome.op = "call_groq_api" ->
                            "Groq API key not found in environment variables")
           ELSE /\ run' = [run EXCEPT !.pc = first]
                /\ UNCHANGED outcome
    /\ UNCHANGED <<weights, scoring, preset, earlier, store>>

\* a loop that takes the pass after the last one for the last
LastAttemptLate(attempt) == attempt = MAX_RETRIES

\* the request is the last one the loop makes
LastAttempt(attempt) == attempt = MAX_RETRIES - 1

\* call_groq_api turns to the backup model when model has failed
GroqFallback(model) == model = GROQ_MODEL /\ GROQ_BACKUP_MODEL # ""

\* extract_text_from_gemini and extract_text_from_groq on the response to
\* request number request: the text, or AIError for a KeyError or IndexError
ExtractText(request, reply) ==
    IF reply = "text"
    THEN [status |-> "ok", value |-> [text_of |-> request]]
    ELSE [status |-> AIError, value |-> "Failed to extract text"]

\* get_ai_response after call_gemini_api or extract_text_from_gemini raised
\* AIError: on to Groq if its key is set, else the last raise
AfterGemini(r) ==
    IF r.GROQ_API_KEY
    THEN /\ run' = [r EXCEPT !.pc = "groq", !.attempt = 0, !.model = GROQ_MODEL]
         /\ UNCHANGED outcome
    ELSE Ends(r, AIError, "No AI API keys available")

\* one pass of the loop of call_gemini_api
GeminiRequest ==
    /\ outcome.status = "pending"
    /\ run.pc = "gemini"
    /\ \E reply \in Replies :
          LET request == Len(run.sent) + 1
              r == [run EXCEPT !.sent = Append(@, [provider |-> "gemini",
                                                   model |-> "gemini", reply |-> reply])]
              raised(after) ==
                  IF outcome.op = "call_gemini_api"
                  THEN Ends([r EXCEPT !.after_loop = after], AIError,
                            IF after THEN "Unexpected error in Gemini API call"
                            ELSE "Gemini API call failed after 3 attempts")
                  ELSE AfterGemini([r EXCEPT !.after_loop = after])
          IN  IF reply = "RequestException"
              THEN IF LastAttempt(run.attempt) THEN raised(FALSE)
                   ELSE IF run.attempt + 1 < MAX_RETRIES
                        THEN /\ run' = [r EXCEPT !.attempt = @ + 1]
                             /\ UNCHANGED outcome
                        ELSE raised(TRUE)
              ELSE IF outcome.op = "call_gemini_api"
                   THEN Ends(r, "ok", [response_to |-> request])
                   ELSE IF ExtractText(request, reply).status = "ok"
                        THEN Ends(r, "ok", ExtractText(request, reply).value)
                        ELSE AfterGemini(r)
    /\ UNCHANGED <<weights, scoring, preset, earlier, store>>

\* one pass of the loop of call_groq_api; the recursive call for the backup
\* model starts its own loop
GroqRequest ==
    /\ outcome.status = "pending"
    /\ run.pc = "groq"
    /\ \E reply \in Replies :
          LET request == Len(run.sent) + 1
              r == [run EXCEPT !.sent = Append(@, [provider |-> "groq",
                                                   model |-> run.model, reply |-> reply])]
              raised(after) ==
                  IF outcome.op = "call_groq_api"
                  THEN Ends([r EXCEPT !.after_loop = after], AIError,
                            IF after THEN "Unexpected error in Groq API call"
                            ELSE "Groq API call failed after 3 attempts")
                  ELSE Ends([r EXCEPT !.after_loop = after], AIError,
                            "All AI providers failed to respond")
          IN  IF reply = "RequestException"
              THEN IF LastAttempt(run.attempt)
                   THEN IF GroqFallback(run.model)
                        THEN /\ run' = [r EXCEPT !.attempt = 0,
                                                 !.model = GROQ_BACKUP_MODEL]
                             /\ UNCHANGED outcome
                        ELSE raised(FALSE)
                   ELSE IF run.attempt + 1 < MAX_RETRIES
                        THEN /\ run' = [r EXCEPT !.attempt = @ + 1]
                             /\ UNCHANGED outcome
                        ELSE raised(TRUE)
              ELSE IF outcome.op = "call_groq_api"
                   THEN Ends(r, "ok", [response_to |-> request])
                   ELSE IF ExtractText(request, reply).status = "ok"
                        THEN Ends(r, "ok", ExtractText(request, reply).value)
                        ELSE Ends(r, AIError, "All AI providers failed to respond")
    /\ UNCHANGED <<weights, scoring, preset, earlier, store>>

NextAI ==
    \/ Enter
    \/ GeminiRequest
    \/ GroqRequest

SpecAI == InitAI /\ [][NextAI]_vars

\* every request comes to an end, and the caller goes on
LiveAI == SpecAI /\ WF_vars(NextAI)

(***************************************************************************)
(* StudentProfileManager: the Students worksheet, the students table of    *)
(* the optional database, and add_student.  Of a row the identifier, the   *)
(* user name and is_active are kept; the other columns are copied from the *)
(* arguments and never read.                                               *)
(***************************************************************************)
MaxRows == 3

Digits == <<"0", "1", "2", "3", "4", "5", "6", "7", "8", "9">>

\* int(s) for a string of digits
RECURSIVE ToInt(_)
ToInt(s) ==
    IF s = <<>> THEN 0
    ELSE 10 * ToInt(SubSeq(s, 1, Len(s) - 1))
         + (CHOOSE d \in 0..9 : Digits[d + 1] = s[Len(s)])

\* what get_all_records makes of a cell: gspread turns every cell that
\* int() or float() accepts into the number; of these the strings of digits
\* are modelled.  A value is tagged with its Python type.
Numericise(cell) ==
    IF cell # <<>> /\ \A i \in 1..Len(cell) : \E d \in 1..10 : Digits[d] = cell[i]
    THEN [int |-> ToInt(cell)]
    ELSE [str |-> cell]

\* self.students_sheet.get_all_records()
GetAllRecords(sheet) ==
    [i \in 1..Len(sheet) |->
        [student_id |-> sheet[i].student_id,
         github_username |-> Numericise(sheet[i].github_username),
         is_active |-> sheet[i].is_active]]

\* get_student_by_github: the first record of the sheet with this user
\* name, else the first row the database returns, else None (here <<>>)
GetStudentByGithub(st, github_username) ==
    LET all_students == GetAllRecords(st.sheet)
        in_sheet == {i \in 1..Len(all_students) :
                        all_students[i].github_username = [str |-> github_username]}
        data == {i \in 1..Len(st.table) : st.table[i].github_username = github_username}
    IN  IF in_sheet # {} THEN all_students[MinOf(in_sheet)]
        ELSE IF st.supabase /\ data # {} THEN st.table[MinOf(data)]
        ELSE <<>>

\* the truth value of a dictionary or of None
Truthy(d) == DOMAIN d # {}

\* GitHub user names: two that differ in case only, and two of digits
UserNames == {<<"a", "d", "a">>, <<"A", "d", "a">>, <<"4", "2">>, <<"7">>}

\* a manager just constructed on a Students sheet that holds the header row
\* only, with or without a database
InitStore ==
    /\ weights = NoObject
    /\ \E supabase \in BOOLEAN :
          /\ outcome = Outcome("__init__", [supabase |-> supabase], "ok", NoValue)
          /\ store = [manager |-> "StudentProfileManager", supabase |-> supabase,
                      sheet |-> <<>>, table |-> <<>>, issued |-> 0]
    /\ NoThreads
    /\ earlier = NoCall /\ run = NoRun

\* add_student; student_id is the next identifier uuid4 has not issued yet
AddStudent(github_username) ==
    LET existing_student == GetStudentByGithub(store, github_username)
        student_id == [uuid |-> store.issued + 1]
    IN  /\ "sheet" \in DOMAIN store
        /\ Truthy(existing_student) \/ Len(store.sheet) < MaxRows
        /\ IF Truthy(existing_student)
           THEN /\ outcome' = Outcome("add_student", [github_username |-> github_username],
                                      "ValueError", NoValue)
                /\ UNCHANGED store
           ELSE /\ store' = [store EXCEPT
                      !.sheet = Append(@, [student_id |-> student_id,
                                           github_username |-> github_username,
                                           is_active |-> "TRUE"]),
                      !.table = IF store.supabase
                                THEN Append(@, [student_id |-> student_id,
                                                github_username |-> github_username,
                                                is_active |-> TRUE])
                                ELSE @,
                      !.issued = @ + 1]
                /\ outcome' = Outcome("add_student", [github_username |-> github_username],
                                      "ok", student_id)
        /\ UNCHANGED <<weights, scoring, preset, earlier, run>>

NextStore == \E github_username \in UserNames : AddStudent(github_username)

SpecStore == InitStore /\ [][NextStore]_vars

(***************************************************************************)
(* Claims about calculate_match_score                                      *)
(***************************************************************************)
\* C1: for every weight configuration the constructor accepts, a
\* calculate_match_score call that returns gives each of the five component
\* scores and the final match score a value from 0 to 100 inclusive (here in
\* hundredths of a point, as the result reports them).
C1_ScoresWithinRange ==
    (outcome.op = "calculate_match_score" /\ outcome.status = "ok") =>
        /\ \A n \in WeightNames : outcome.value.component_scores[n] \in 0..(100 * 100)
        /\ outcome.value.match_score \in 0..(100 * 100)

\* C2: calculate_match_score is total: whatever optional fields the two
\* records lack, whatever the case of their strings, the call returns a
\* result and never raises.
C2_NeverRaises ==
    outcome.op = "calculate_match_score" => outcome.status = "ok"

\* C7: when a preset call runs while a scoring call is in flight, the
\* scoring call's result reflects the weights in force when that call was
\* made: the weights it used for the final score and the weights it used for
\* the explanation are those of that one configuration.
C7_OneConfiguration ==
    scoring.pc = "returned" =>
        /\ ReadWeights(scoring.final) = scoring.start
        /\ ReadWeights(scoring.explanation) = scoring.start

\* C8: the category of a final score is Perfect Match from 90, Strong Match
\* from 75 and below 90, Good Match from 60 and below 75, Potential Match
\* from 40 and below 60, Poor Match below 40; each lower bound belongs to the
\* higher category, so every score has exactly one of the five labels.
C8_CategoryThresholds ==
    (outcome.op = "_get_match_category" /\ outcome.status = "ok") =>
        LET point == WCoarse * ScoreScale
            \* a score <<hi, lo>> with 0 <= lo < WLimb is at least t whole
            \* points exactly when hi is
            atLeast(t) == outcome.args[1] >= t * point
            label == outcome.value
        IN  /\ label \in {"Perfect Match", "Strong Match", "Good Match",
                         "Potential Match", "Poor Match"}
            /\ label = "Perfect Match" <=> atLeast(90)
            /\ label = "Strong Match" <=> (atLeast(75) /\ ~atLeast(90))
            /\ label = "Good Match" <=> (atLeast(60) /\ ~atLeast(75))
            /\ label = "Potential Match" <=> (atLeast(40) /\ ~atLeast(60))
            /\ label = "Poor Match" <=> ~atLeast(40)

\* C8 witness: a score of exactly 75 points has been categorised, as Strong
\* Match.
C8_Witness ==
    /\ outcome.op = "_get_match_category"
    /\ outcome.status = "ok"
    /\ outcome.args = WholePoints(75)
    /\ outcome.value = "Strong Match"

C9_RankedAndTruncated ==
    (outcome.op = "find_matches" /\ outcome.status # "pending"
     /\ outcome.args.limit >= 0) =>
        /\ outcome.status = "ok"
        /\ LET issues == outcome.args.issues
               s == outcome.args.student
               result == outcome.value
               scored(k) == MatchResult(s, issues[k], ComponentTable[s, issues[k]].scores,
                                        weights, weights)
               \* how many issues the ranking puts before the one at position k
               before(k) == Cardinality({j \in 1..Len(issues) :
                                \/ scored(j).match_score > scored(k).match_score
                                \/ (scored(j).match_score = scored(k).match_score /\ j < k)})
           IN  /\ Len(result) = Min(outcome.args.limit, Len(issues))
               /\ \A k \in 1..Len(issues) :
                    before(k) < Len(result) => result[before(k) + 1] = scored(k)

\* C10: find_matches_for_all_students returns a mapping whose keys are the
\* identifiers of the profiles that have one, each mapped to the list
\* find_matches returns for that profile with the per-profile limit; a
\* profile without identifier is skipped and does not make the call raise.
C10_OneEntryPerIdentifiedProfile ==
    (outcome.op = "find_matches_for_all_students" /\ outcome.status # "pending") =>
        /\ outcome.status = "ok"
        /\ LET students == outcome.args.students
               identified == {k \in 1..Len(students) : HasStudentId(students[k])}
           IN  /\ DOMAIN outcome.value =
                    {Students[students[k]].student_id : k \in identified}
               /\ \A k \in identified :
                    outcome.value[Students[students[k]].student_id]
                        = FindMatchesValue(students[k], outcome.args.issues,
                                           outcome.args.matches_per_student, weights)

\* C11: an item without identifier is skipped in batch ranking: no result
\* that find_matches or find_matches_for_all_students returns refers to an
\* item without identifier.
C11_NoResultWithoutIdentifier ==
    /\ (outcome.op = "find_matches" /\ outcome.status = "ok") =>
            \A k \in 1..Len(outcome.value) : outcome.value[k].issue_id # None
    /\ (outcome.op = "find_matches_for_all_students" /\ outcome.status = "ok") =>
            \A id \in DOMAIN outcome.value :
                \A k \in 1..Len(outcome.value[id]) : outcome.value[id][k].issue_id # None

\* C13: calculate_match_score, find_matches and find_matches_for_all_students
\* leave their arguments as they were (the profile, the item, and the list
\* of items in its order) and leave the five weights as they were; a step
\* that changes a weight is a step of one of the two preset operations.
C13_ScoringLeavesInputsAndWeights ==
    [][ /\ outcome'.op \in {"calculate_match_score", "find_matches",
                            "find_matches_for_all_students"} =>
                /\ weights' = weights
                /\ outcome'.args = outcome.args
        /\ weights' # weights =>
                outcome'.op \in {"adjust_weights_for_gsoc_phase",
                                 "adjust_weights_for_student_goals"} ]_vars

\* C13 witness: find_matches has returned two results in the opposite order
\* of the two issues it was given, and the list it was given is as it was.
C13_Witness ==
    /\ outcome.op = "find_matches"
    /\ outcome.status = "ok"
    /\ outcome.args.issues = <<"Issue4", "Issue1">>
    /\ Len(outcome.value) = 2
    /\ outcome.value[1].issue_id = "issue1"
    /\ outcome.value[2].issue_id = "issue4"
    /\ weights = DefaultWeights

(***************************************************************************)
(* Claims about the component scores                                       *)
(***************************************************************************)
\* the record d with the value v under the key k
With(d, k, v) == [x \in DOMAIN d \cup {k} |-> IF x = k THEN v ELSE d[x]]

\* C14: a profile without available_hours_weekly gets the time fit of the
\* same profile with 0 hours; an item without estimated_time_hours gets the
\* time fit of the same item with 10 hours; an item without difficulty_score
\* gets the difficulty fit of the same item with difficulty 5.
C14_MissingValuesDefault ==
    /\ (/\ outcome.op = "_calculate_time_fit"
        /\ outcome.status # "pending"
        /\ "available_hours_weekly" \notin DOMAIN outcome.args.student) =>
            /\ outcome.status = "ok"
            /\ outcome.value = CalculateTimeFit(
                    With(outcome.args.student, "available_hours_weekly", 0),
                    outcome.args.issue)
    /\ (/\ outcome.op = "_calculate_time_fit"
        /\ outcome.status # "pending"
        /\ "estimated_time_hours" \notin DOMAIN outcome.args.issue) =>
            /\ outcome.status = "ok"
            /\ outcome.value = CalculateTimeFit(
                    outcome.args.student,
                    With(outcome.args.issue, "estimated_time_hours", 10))
    /\ (/\ outcome.op = "_calculate_difficulty_fit"
        /\ outcome.status # "pending"
        /\ "difficulty_score" \notin DOMAIN outcome.args.issue) =>
            /\ outcome.status = "ok"
            /\ outcome.value = CalculateDifficultyFit(
                    outcome.args.student,
                    With(outcome.args.issue, "difficulty_score", 5))

\* C15: when _calculate_skill_alignment computes the primary-language score,
\* it is 100, 90 or 80 by the proficiency of the profile's skill typed
\* language that has the name of the item's primary language (compared
\* without case), whatever the other skills and their order; it is 70, 60
\* or 50 by the proficiency of a related language skill only when there is
\* no such skill, and 0 only when there is neither.
C15_ExactBeforeRelated ==
    LET skills == Get(outcome.args.student, "skills", <<>>)
        primary == Lower(Get(outcome.args.issue, "primary_language", <<>>))
        name(k) == Lower(Get(skills[k], "skill_name", <<>>))
        proficiency(k) == Lower(Get(skills[k], "proficiency", Str_beginner))
        languages == {k \in 1..Len(skills) :
                        Lower(Get(skills[k], "skill_type", <<>>)) = Str_language}
        exact == {k \in languages : name(k) = primary}
        related == {k \in languages : AreRelatedLanguages(name(k), primary)}
    IN  (/\ outcome.op = "_calculate_skill_alignment"
         /\ outcome.status = "ok"
         /\ "primary_language_score" \in DOMAIN outcome.value) =>
            IF exact # {}
            THEN \E k \in exact :
                    outcome.value.primary_language_score =
                        ByProficiency(proficiency(k), 100, 90, 80)
            ELSE IF related # {}
            THEN \E k \in related :
                    outcome.value.primary_language_score =
                        ByProficiency(proficiency(k), 70, 60, 50)
            ELSE outcome.value.primary_language_score = 0

\* C16: for an item with required skills, _calculate_skill_alignment returns,
\* and its secondary average is the mean, over the required skills other than
\* the item's primary language, of: 100, 80 or 60 by the proficiency of the
\* profile's skill of that name; otherwise the largest of 70, 50 or 30 by
\* proficiency over the profile's related skills; otherwise 0.  The average
\* is 0 when there is no such required skill.
C16_SecondaryAverage ==
    LET skills == Get(outcome.args.student, "skills", <<>>)
        required == Get(outcome.args.issue, "required_skills", <<>>)
        primary == Lower(Get(outcome.args.issue, "primary_language", <<>>))
        name(k) == Lower(Get(skills[k], "skill_name", <<>>))
        proficiency(k) == Lower(Get(skills[k], "proficiency", Str_beginner))
        secondary == {r \in 1..Len(required) : Lower(required[r]) # primary}
        exact(r) == {k \in 1..Len(skills) : name(k) = Lower(required[r])}
        related(r) == {k \in 1..Len(skills) :
                        AreRelatedTechnologies(name(k), Lower(required[r]))}
        score(r) ==
            IF exact(r) # {}
            THEN ByProficiency(proficiency(CHOOSE k \in exact(r) : TRUE), 100, 80, 60)
            ELSE IF related(r) # {}
            THEN CHOOSE best \in {70, 50, 30} :
                    /\ \E k \in related(r) :
                            best = ByProficiency(proficiency(k), 70, 50, 30)
                    /\ \A k \in related(r) :
                            best >= ByProficiency(proficiency(k), 70, 50, 30)
            ELSE 0
        total == SumSeq([r \in 1..Len(required) |-> IF r \in secondary THEN score(r) ELSE 0])
    IN  (/\ outcome.op = "_calculate_skill_alignment"
         /\ outcome.status # "pending"
         /\ required # <<>>) =>
            /\ outcome.status = "ok"
            /\ outcome.value.framework_score * Cardinality(secondary) = total * ScoreScale
            /\ secondary = {} => outcome.value.framework_score = 0

\* C17: _estimate_student_skill_level returns an integer of 1..10: 3 for a
\* profile without skills, and otherwise an integer nearest to the average of
\* 9 per advanced skill, 5 per intermediate skill and 2 per beginner skill,
\* a skill without a proficiency being a beginner skill.
C17_SkillLevel ==
    LET skills == Get(outcome.args.student, "skills", <<>>)
        proficiency(k) == Lower(Get(skills[k], "proficiency", Str_beginner))
        points == [k \in 1..Len(skills) |-> ByProficiency(proficiency(k), 9, 5, 2)]
    IN  (/\ outcome.op = "_estimate_student_skill_level"
         /\ outcome.status # "pending") =>
            /\ outcome.status = "ok"
            /\ outcome.value \in 1..10
            /\ skills = <<>> => outcome.value = 3
            /\ skills # <<>> =>
                    2 * Abs(outcome.value * Len(skills) - SumSeq(points)) <= Len(skills)

\* C18: with gap = difficulty_score (5 when missing) minus the estimated
\* skill level, exactly one row of the table 0 -> 100, 1 -> 90, 2 -> 70,
\* 3 -> 40, above 3 -> 0, negative -> 60 applies to the gap, and
\* _calculate_difficulty_fit returns 0.7 times that row's score plus 0.3
\* times the learning-opportunity score.
C18_GapTable ==
    LET gap == Get(outcome.args.issue, "difficulty_score", 5)
                    - EstimateStudentSkillLevel(outcome.args.student)
        rows == { <<gap = 0, 100>>, <<gap = 1, 90>>, <<gap = 2, 70>>, <<gap = 3, 40>>,
                  <<gap > 3, 0>>, <<gap < 0, 60>> }
        applying == {row \in rows : row[1]}
        learning == CalculateLearningOpportunity(outcome.args.student, outcome.args.issue)
    IN  (/\ outcome.op = "_calculate_difficulty_fit"
         /\ outcome.status # "pending") =>
            /\ outcome.status = "ok"
            /\ Cardinality(applying) = 1
            /\ \A row \in applying :
                    10 * outcome.value = (7 * row[2] + 3 * learning) * ScoreScale

\* C18 witness: an item of difficulty 9 against a profile of skill level 3
\* (no skills), gap 6: the gap score is 0 and the difficulty fit is 0.3 times
\* the learning-opportunity score of 70, that is 21.
C18_Witness ==
    /\ outcome.op = "_calculate_difficulty_fit"
    /\ outcome.status = "ok"
    /\ outcome.args.student = [student_id |-> "part"]
    /\ outcome.args.issue.required_skills # <<>>
    /\ "difficulty_score" \in DOMAIN outcome.args.issue
    /\ outcome.args.issue.difficulty_score = 9
    /\ outcome.value = 21 * ScoreScale

\* C19: _calculate_learning_opportunity returns 50 for an item without
\* required skills; else 30 when every required skill is a skill of the
\* profile; else 100 when a new required skill contains or is contained in a
\* goal keyword, the keywords being the words of the goal statement longer
\* than 3 characters that are not want, learn, with, and, the; else 70 when
\* at least two required skills are new; else 50.
C19_LearningOrder ==
    LET required == Get(outcome.args.issue, "required_skills", <<>>)
        skills == Get(outcome.args.student, "skills", <<>>)
        held == {Lower(Get(skills[k], "skill_name", <<>>)) : k \in 1..Len(skills)}
        words == Split(Lower(Get(outcome.args.student, "gsoc_goals", <<>>)))
        stop == {<<"w", "a", "n", "t">>, <<"l", "e", "a", "r", "n">>,
                 <<"w", "i", "t", "h">>, <<"a", "n", "d">>, <<"t", "h", "e">>}
        keywords == {words[j] : j \in {n \in 1..Len(words) :
                                        Len(words[n]) > 3 /\ words[n] \notin stop}}
        new == {r \in 1..Len(required) : Lower(required[r]) \notin held}
        overlapping == {r \in new : \E keyword \in keywords :
                            \/ Contains(keyword, Lower(required[r]))
                            \/ Contains(Lower(required[r]), keyword)}
    IN  (/\ outcome.op = "_calculate_learning_opportunity"
         /\ outcome.status # "pending") =>
            /\ outcome.status = "ok"
            /\ outcome.value =
                 IF required = <<>> THEN 50
                 ELSE IF new = {} THEN 30
                 ELSE IF overlapping # {} THEN 100
                 ELSE IF Cardinality(new) >= 2 THEN 70
                 ELSE 50

\* C19 witness: a profile without skills whose goals name Django meets an
\* item that requires Python, Django and API: three new skills, one of them
\* a goal, and the score is 100, not 70.
C19_Witness ==
    /\ outcome.op = "_calculate_learning_opportunity"
    /\ outcome.status = "ok"
    /\ outcome.args.issue.issue_id = "part1"
    /\ "gsoc_goals" \in DOMAIN outcome.args.student
    /\ outcome.args.student.skills = <<>>
    /\ outcome.value = 100

\* C20: when the item's org_name is the name of one of the profile's target
\* organizations, compared without case, _calculate_org_fit returns and its
\* target score is 100 for priority 1, 80 for priority 2 and 60 for any other
\* or missing priority of that target: the fallback on related domains, which
\* gives 40 or raises, is not taken.
C20_TargetByPriority ==
    LET org_name == Lower(Get(outcome.args.issue, "org_name", <<>>))
        targets == Get(outcome.args.student, "target_orgs", <<>>)
        matching == {k \in 1..Len(targets) :
                        Lower(Get(targets[k], "org_name", <<>>)) = org_name}
    IN  (/\ outcome.op = "_calculate_org_fit"
         /\ outcome.status # "pending"
         /\ matching # {}) =>
            /\ outcome.status = "ok"
            /\ \E k \in matching :
                    outcome.value.target_org_score =
                        IF "priority" \notin DOMAIN targets[k] THEN 60
                        ELSE IF targets[k].priority = 1 THEN 100
                        ELSE IF targets[k].priority = 2 THEN 80
                        ELSE 60

\* C20 witness: a profile with a skill and the one target "Zulip" of
\* priority 1 meets an item of the organization "zulip": target score 100.
C20_Witness ==
    /\ outcome.op = "_calculate_org_fit"
    /\ outcome.status = "ok"
    /\ "org_name" \in DOMAIN outcome.args.issue
    /\ outcome.args.issue.org_name = <<"z", "u", "l", "i", "p">>
    /\ outcome.args.student.target_orgs =
            <<[org_name |-> <<"Z", "u", "l", "i", "p">>, priority |-> 1]>>
    /\ "skills" \in DOMAIN outcome.args.student
    /\ outcome.value.target_org_score = 100

\* C21: when the item's org_name is the name of none of the profile's target
\* organizations, _calculate_org_fit returns, and its target score is 40 when
\* the domains of the profile (those of its goal statement and of its skill
\* names) meet the domains of the item (those of its organization name and
\* description and of its required skills), and 0 otherwise; so for profiles
\* with skills as for profiles without.
C21_DomainFallback ==
    LET org_name == Lower(Get(outcome.args.issue, "org_name", <<>>))
        targets == Get(outcome.args.student, "target_orgs", <<>>)
        matching == {k \in 1..Len(targets) :
                        Lower(Get(targets[k], "org_name", <<>>)) = org_name}
        skills == Get(outcome.args.student, "skills", <<>>)
        profile_domains ==
            DomainsIn(Lower(Get(outcome.args.student, "gsoc_goals", <<>>)))
                \cup UNION {DomainsIn(Lower(Get(skills[k], "skill_name", <<>>))) :
                                k \in 1..Len(skills)}
    IN  (/\ outcome.op = "_calculate_org_fit"
         /\ outcome.status # "pending"
         /\ matching = {}) =>
            /\ outcome.status = "ok"
            /\ outcome.value.target_org_score =
                 IF profile_domains \cap ExtractOrgDomains(outcome.args.issue) # {}
                 THEN 40 ELSE 0

\* C22: the previous-contributions score of _calculate_org_fit counts the
\* profile's contributions whose repository belongs to the item's
\* organization, the organization's name compared without case as for the
\* target organizations: 100 for more than one pull request among them, 80
\* for exactly one, 50 for none but some other contribution, 0 otherwise.
C22_ContributionsToTheOrganization ==
    LET org_name == Lower(Get(outcome.args.issue, "org_name", <<>>))
        contributions == Get(outcome.args.student, "contributions", <<>>)
        here == {k \in 1..Len(contributions) :
                    StartsWith(Lower(Get(contributions[k], "repo_name", <<>>)),
                               org_name \o <<"/">>)}
        pulls == {k \in here : Get(contributions[k], "contribution_type", <<>>) = Str_pr}
    IN  (/\ outcome.op = "_calculate_org_fit"
         /\ outcome.status = "ok") =>
            outcome.value.previous_contributions_score =
                IF Cardinality(pulls) > 1 THEN 100
                ELSE IF Cardinality(pulls) = 1 THEN 80
                ELSE IF here # {} THEN 50
                ELSE 0

\* C23: for a profile with weekly hours, with ratio = (hours / 3) / estimate
\* (estimate 10 when missing), taken as 2.0 when the estimate is not
\* positive, the time-requirement score is 100 for ratio > 2.0, 90 for
\* ratio > 1.5, 70 for ratio > 1.0, 40 for ratio > 0.8 and 0 otherwise, and
\* _calculate_time_fit returns 0.8 times that score plus 0.2 times 80.
C23_StrictTimeBrackets ==
    LET hours == outcome.args.student.available_hours_weekly
        estimate == Get(outcome.args.issue, "estimated_time_hours", 10)
        \* ratio > n / d, with ratio = hours / (3 * estimate) or 2
        exceeds(n, d) == IF estimate > 0 THEN d * hours > n * 3 * estimate
                         ELSE d * 2 > n
        score == IF exceeds(2, 1) THEN 100
                 ELSE IF exceeds(3, 2) THEN 90
                 ELSE IF exceeds(1, 1) THEN 70
                 ELSE IF exceeds(4, 5) THEN 40
                 ELSE 0
    IN  (/\ outcome.op = "_calculate_time_fit"
         /\ outcome.status # "pending"
         /\ "available_hours_weekly" \in DOMAIN outcome.args.student) =>
            /\ outcome.status = "ok"
            /\ 10 * outcome.value = (8 * score + 2 * 80) * ScoreScale

\* C23 witness: 30 weekly hours against an estimate of 5 hours, ratio exactly
\* 2.0: the score is 90 and the time fit 0.8 * 90 + 16 = 88.
C23_Witness ==
    /\ outcome.op = "_calculate_time_fit"
    /\ outcome.status = "ok"
    /\ outcome.args.student = [student_id |-> "part", available_hours_weekly |-> 30]
    /\ outcome.args.issue = [issue_id |-> "part", estimated_time_hours |-> 5]
    /\ outcome.value = 88 * ScoreScale

\* C24: _calculate_strategic_value returns 0.4 visibility + 0.3 mentor
\* activity + 0.3 competition; visibility is 100 when the item has a
\* high-visibility label, else 70 for a medium one, else 40 for a low one,
\* else 70 for bug, else 40 for documentation, else 60; mentor activity is
\* 100, 80, 50, 30 for a comment count > 5, > 2, > 0, otherwise; competition
\* is 20, 50, 80, 100 for a comment count > 10, > 5, > 2, otherwise.
C24_StrategicValue ==
    LET given == Get(outcome.args.issue, "labels", <<>>)
        labels == {Lower(given[k]) : k \in 1..Len(given)}
        comments == Get(outcome.args.issue, "comments_count", 0)
        high == {<<"f", "e", "a", "t", "u", "r", "e">>, <<"e", "n", "h", "a", "n", "c", "e", "m", "e", "n", "t">>, <<"c", "o", "r", "e">>, <<"c", "r", "i", "t", "i", "c", "a", "l">>, <<"h", "i", "g", "h", "-", "p", "r", "i", "o", "r", "i", "t", "y">>}
        medium == {<<"i", "m", "p", "r", "o", "v", "e", "m", "e", "n", "t">>, <<"m", "o", "d", "e", "r", "a", "t", "e">>, <<"m", "e", "d", "i", "u", "m", "-", "p", "r", "i", "o", "r", "i", "t", "y">>}
        low == {<<"m", "i", "n", "o", "r">>, <<"t", "r", "i", "v", "i", "a", "l">>, <<"l", "o", "w", "-", "p", "r", "i", "o", "r", "i", "t", "y">>}
        visibility == IF labels \cap high # {} THEN 100
                      ELSE IF labels \cap medium # {} THEN 70
                      ELSE IF labels \cap low # {} THEN 40
                      ELSE IF <<"b", "u", "g">> \in labels THEN 70
                      ELSE IF <<"d", "o", "c", "u", "m", "e", "n", "t", "a", "t", "i", "o", "n">> \in labels THEN 40
                      ELSE 60
        mentor == IF comments > 5 THEN 100 ELSE IF comments > 2 THEN 80
                  ELSE IF comments > 0 THEN 50 ELSE 30
        competition == IF comments > 10 THEN 20 ELSE IF comments > 5 THEN 50
                       ELSE IF comments > 2 THEN 80 ELSE 100
    IN  (/\ outcome.op = "_calculate_strategic_value"
         /\ outcome.status # "pending") =>
            /\ outcome.status = "ok"
            /\ outcome.value.visibility_score = visibility
            /\ outcome.value.mentor_activity_score = mentor
            /\ outcome.value.competition_level_score = competition
            /\ 10 * outcome.value.strategic_value_score =
                    (4 * visibility + 3 * mentor + 3 * competition) * ScoreScale

\* C24 witness: an item labelled bug and enhancement, in that order, with 6
\* comments: visibility 100, mentor activity 100, competition 50, value 85.
C24_Witness ==
    /\ outcome.op = "_calculate_strategic_value"
    /\ outcome.status = "ok"
    /\ "labels" \in DOMAIN outcome.args.issue
    /\ outcome.args.issue.labels = <<<<"b", "u", "g">>, <<"e", "n", "h", "a", "n", "c", "e", "m", "e", "n", "t">>>>
    /\ "comments_count" \in DOMAIN outcome.args.issue
    /\ outcome.args.issue.comments_count = 6
    /\ outcome.value.visibility_score = 100
    /\ outcome.value.strategic_value_score = 85 * ScoreScale

C26_RecommendationTiers ==
    (outcome.op = "_generate_explanation" /\ outcome.status = "ok") =>
        LET final_score == outcome.args.final_score
            below(points) == LessWeighted(final_score, WholePoints(points))
            recommendation == outcome.value.recommendation
            category == outcome.value.category
        IN  /\ recommendation \in {"highly recommended", "good match",
                                   "could be a match", "not recommended"}
            /\ recommendation = "highly recommended" <=> ~below(75)
            /\ recommendation = "good match" <=> (~below(60) /\ below(75))
            /\ recommendation = "could be a match" <=> (~below(40) /\ below(60))
            /\ recommendation = "not recommended" <=> below(40)
            /\ category \in {"Perfect Match", "Strong Match"}
                  <=> recommendation = "highly recommended"
            /\ category = "Good Match" <=> recommendation = "good match"
            /\ category = "Potential Match" <=> recommendation = "could be a match"
            /\ category = "Poor Match" <=> recommendation = "not recommended"

\* C26 witness: a final score of exactly 75 is a Strong Match, highly
\* recommended
C26_Witness ==
    /\ outcome.op = "_generate_explanation"
    /\ outcome.status = "ok"
    /\ outcome.args.final_score = WholePoints(75)
    /\ outcome.value.category = "Strong Match"
    /\ outcome.value.recommendation = "highly recommended"

\* C30: in every match result the category label is the one the thresholds
\* 90 / 75 / 60 / 40 give for the reported match_score (here in hundredths of
\* a point): no result reports 90.0, 75.0, 60.0 or 40.0 together with the
\* category below that boundary.
C30_CategoryOfReportedScore ==
    (outcome.op = "calculate_match_score" /\ outcome.status = "ok") =>
        LET match_score == outcome.value.match_score
        IN  outcome.value.match_category =
                IF match_score >= 90 * 100 THEN "Perfect Match"
                ELSE IF match_score >= 75 * 100 THEN "Strong Match"
                ELSE IF match_score >= 60 * 100 THEN "Good Match"
                ELSE IF match_score >= 40 * 100 THEN "Potential Match"
                ELSE "Poor Match"

(***************************************************************************)
(* Claims about the AI providers                                           *)
(***************************************************************************)
\* the numbers of the requests sent to provider with model
RequestsTo(provider, model) ==
    {i \in 1..Len(run.sent) : /\ run.sent[i].provider = provider
                              /\ run.sent[i].model = model}

\* the requests of this set that raised a RequestException
Failures(requests) == {i \in requests : run.sent[i].reply = "RequestException"}

\* Gemini has failed: every one of the MAX_RETRIES requests raised, or a
\* response came without the text
GeminiFailed ==
    LET requests == RequestsTo("gemini", "gemini")
    IN  \/ Cardinality(Failures(requests)) = MAX_RETRIES
        \/ \E i \in requests : run.sent[i].reply = "no text"

\* Groq has failed: every request to the primary and to the backup model
\* raised, or a response came without the text
GroqFailed ==
    LET requests == RequestsTo("groq", GROQ_MODEL) \cup RequestsTo("groq", GROQ_BACKUP_MODEL)
    IN  \/ Cardinality(Failures(requests)) = 2 * MAX_RETRIES
        \/ \E i \in requests : run.sent[i].reply = "no text"

\* the state part of C27, on the requests a get_ai_response call has sent
ProviderOrder ==
    outcome.op = "get_ai_response" =>
        LET sent == run.sent
            requests == 1..Len(sent)
        IN  /\ \A i, j \in requests :
                  (sent[i].provider = "gemini" /\ sent[j].provider = "groq") => i < j
            /\ (run.GEMINI_API_KEY /\ sent # <<>>) => sent[1].provider = "gemini"
            /\ \A i \in requests :
                  (sent[i].provider = "gemini" /\ sent[i].reply = "text") =>
                      /\ i = Len(sent)
                      /\ outcome.status = "ok"
                      /\ outcome.value = [text_of |-> i]
            /\ (\E i \in requests : sent[i].provider = "groq") =>
                  (~run.GEMINI_API_KEY \/ GeminiFailed)
            /\ outcome.status = AIError =>
                  /\ run.GEMINI_API_KEY => GeminiFailed
                  /\ run.GROQ_API_KEY => GroqFailed
            /\ outcome.status \in {"pending", "ok", AIError}
            /\ outcome.status = "ok" =>
                  /\ sent # <<>>
                  /\ sent[Len(sent)].reply = "text"
                  /\ outcome.value = [text_of |-> Len(sent)]

BoundedRetries ==
    LET sent == run.sent
        primary == RequestsTo("groq", GROQ_MODEL)
        backup == RequestsTo("groq", GROQ_BACKUP_MODEL)
        gemini == RequestsTo("gemini", "gemini")
    IN  /\ Cardinality(primary) <= MAX_RETRIES
        /\ Cardinality(backup) <= MAX_RETRIES
        /\ Cardinality(gemini) <= MAX_RETRIES
        /\ (primary # {} /\ backup # {}) =>
              /\ Cardinality(Failures(primary)) = MAX_RETRIES
              /\ \A i \in primary, j \in backup : i < j
        /\ ~run.after_loop
        /\ outcome.op \in {"call_groq_api", "call_gemini_api"} =>
              /\ outcome.status = "ok" =>
                    /\ sent # <<>>
                    /\ outcome.value = [response_to |-> Len(sent)]
                    /\ \A i \in 1..Len(sent) :
                          sent[i].reply = "RequestException" <=> i < Len(sent)
              /\ outcome.status = AIError =>
                    \/ sent = <<>> /\ ~(IF outcome.op = "call_groq_api"
                                        THEN run.GROQ_API_KEY ELSE run.GEMINI_API_KEY)
                    \/ /\ \A i \in 1..Len(sent) : sent[i].reply = "RequestException"
                       /\ Len(sent) = IF outcome.op = "call_groq_api"
                                         /\ outcome.args.model = GROQ_MODEL
                                      THEN 2 * MAX_RETRIES ELSE MAX_RETRIES

NoSharedUsername ==
    "sheet" \in DOMAIN store =>
        /\ \A i, j \in 1..Len(store.sheet) :
              store.sheet[i].github_username = store.sheet[j].github_username => i = j
        /\ \A i, j \in 1..Len(store.table) :
              store.table[i].github_username = store.table[j].github_username => i = j

\* what one add_student call does to the rows stored before it
AddStudentStep ==
    outcome'.op = "add_student" =>
        LET github_username == outcome'.args.github_username
            stored == \E i \in 1..Len(store.sheet) :
                          store.sheet[i].github_username = github_username
            row == store'.sheet[Len(store'.sheet)]
        IN  IF stored
            THEN /\ outcome'.status = "ValueError"
                 /\ store'.sheet = store.sheet
                 /\ store'.table = store.table
            ELSE /\ outcome'.status = "ok"
                 /\ Len(store'.sheet) = Len(store.sheet) + 1
                 /\ SubSeq(store'.sheet, 1, Len(store.sheet)) = store.sheet
                 /\ row.github_username = github_username
                 /\ row.is_active = "TRUE"
                 /\ row.student_id = outcome'.value
                 /\ \A i \in 1..Len(store.sheet) : store.sheet[i].student_id # row.student_id

\* C28: after any sequence of add_student calls no two stored rows share a
\* github_username: a call with a user name that is already stored raises
\* ValueError and appends nothing to the sheet or to the database, and a call
\* with a new user name appends exactly one row, with a fresh student_id and
\* is_active TRUE.
C28_UserNamesAreUnique ==
    /\ []NoSharedUsername
    /\ [][AddStudentStep]_vars

(***************************************************************************)
(* Claims about the configuration                                          *)
(***************************************************************************)

\* C3 (as stated): every configuration in force has weights that sum to 1.0
\* within an absolute 1e-5, and a construction whose weights do not sum to
\* 1.0 within that tolerance fails and yields no configuration.
C3_SumWithinAbsoluteTolerance ==
    LET within(t) == Abs(t - WScale) <= WScale \div 100000
    IN  /\ HasObject => within(TotalWeight(weights))
        /\ (outcome.op = "__init__" /\ ~within(TotalWeight(outcome.args)))
              => outcome.status = "ValueError"

\* C3 (amended): every configuration in force has weights that sum to 1.0
\* within the relative tolerance 1e-5 of math.isclose, that is
\* |sum - 1| <= 1e-5 * max(|sum|, 1); a construction whose weights are not
\* within it raises ValueError, one whose weights are within it installs
\* exactly those weights.
C3_SumWithinRelativeTolerance ==
    LET within(t) == Abs(t - WScale) <= Max(Abs(t), WScale) \div 100000
    IN  /\ HasObject => within(TotalWeight(weights))
        /\ outcome.op = "__init__" =>
              /\ ~within(TotalWeight(outcome.args)) => outcome.status = "ValueError"
              /\ within(TotalWeight(outcome.args)) =>
                    outcome.status = "ok" /\ weights = outcome.args

\* C3 witness: a construction has failed while an earlier object, built at
\* the upper edge of the tolerance, is still the one in force.
C3_Witness ==
    /\ outcome.op = "__init__"
    /\ outcome.status = "ValueError"
    /\ HasObject
    /\ TotalWeight(weights) = WScale + 10000

\* C4: every accepted configuration has each weight within [0, 1]; a vector
\* that sums to 1.0 with a negative weight or a weight above 1 is rejected.
C4_WeightsWithinUnitInterval ==
    /\ HasObject => \A n \in WeightNames : 0 <= weights[n] /\ weights[n] <= WScale
    /\ (outcome.op = "__init__"
          /\ \E n \in WeightNames : outcome.args[n] < 0 \/ outcome.args[n] > WScale)
       => outcome.status = "ValueError"

\* C5: after a preset call with a known name the five weights are exactly
\* that preset's row, whatever they were before; the middle row is the
\* default construction.
C5_PresetReplacesAllWeights ==
    /\ (outcome.op = "adjust_weights_for_gsoc_phase" /\ outcome.args = "early")
          => weights = MkWeights(Frac(4000), Frac(2500), Frac(1500), Frac(1000), Frac(1000))
    /\ (outcome.op = "adjust_weights_for_gsoc_phase" /\ outcome.args = "middle")
          => weights = MkWeights(Frac(3500), Frac(2000), Frac(1500), Frac(1500), Frac(1500))
             /\ weights = DefaultWeights
    /\ (outcome.op = "adjust_weights_for_gsoc_phase" /\ outcome.args = "late")
          => weights = MkWeights(Frac(2500), Frac(1500), Frac(1500), Frac(2000), Frac(2500))
    /\ (outcome.op = "adjust_weights_for_student_goals" /\ outcome.args = "skill_development")
          => weights = MkWeights(Frac(3000), Frac(3500), Frac(1000), Frac(1500), Frac(1000))
    /\ (outcome.op = "adjust_weights_for_student_goals" /\ outcome.args = "selection")
          => weights = MkWeights(Frac(3000), Frac(1500), Frac(1500), Frac(1500), Frac(2500))
    /\ (outcome.op = "adjust_weights_for_student_goals" /\ outcome.args = "portfolio")
          => weights = MkWeights(Frac(2500), Frac(2000), Frac(2500), Frac(1000), Frac(2000))

\* C5 witness: the portfolio preset has been applied.
C5_Witness ==
    /\ outcome.op = "adjust_weights_for_student_goals"
    /\ outcome.args = "portfolio"
    /\ outcome.status = "ok"
    /\ weights.org_fit = Frac(2500)

\* C6: a preset call with a name outside its enumeration fails with an error
\* and leaves all five weights as they were before the call.
C6_UnknownPresetLeavesWeights ==
    [][ /\ (outcome'.op = "adjust_weights_for_gsoc_phase"
              /\ outcome'.args \notin {"early", "middle", "late"})
           => (outcome'.status = "ValueError" /\ weights' = weights)
        /\ (outcome'.op = "adjust_weights_for_student_goals"
              /\ outcome'.args \notin {"skill_development", "selection", "portfolio"})
           => (outcome'.status = "ValueError" /\ weights' = weights) ]_vars

\* C6 witness: an unknown phase name was refused on an object whose weights
\* are not the default ones.
C6_Witness ==
    /\ outcome.op = "adjust_weights_for_gsoc_phase"
    /\ outcome.args = "final"
    /\ outcome.status = "ValueError"
    /\ weights = MkWeights(Frac(5000), Frac(5000), 0, 0, 0)

====
